---------------------------- MODULE Spec2Model ----------------------------
(***************************************************************************)
(* The deploy acceptor (admission pipeline) of the node, hosted either by  *)
(* the test reactor of deploy_acceptor/tests.rs or by a node whose         *)
(* services answer as the external interfaces allow.                       *)
(*                                                                         *)
(* The test reactor, its scenarios and its driver are translated from      *)
(* tests.rs.  The component under test (`super::*`, deploy_acceptor.rs)    *)
(* is not part of the source tree at hand; its handlers are modelled from  *)
(* sections 4 and 7 of the specification.                                  *)
(***************************************************************************)
EXTENDS Integers, FiniteSets, Sequences, TLC

(***************************************************************************)
(* Bounds and constants.                                                   *)
(***************************************************************************)

\* casper_execution_engine's MAX_PAYMENT_AMOUNT, scaled down: only its order
\* relation to a purse balance is used.
MAX_PAYMENT_AMOUNT == 2

\* How far above MAX_PAYMENT_AMOUNT the purse balances of a node reach.
BalanceSlack == 1

\* The content hashes of the deploys a node is sent.
MaxDeployId == 1

\* ActionThresholds::new(Weight::new(100u8), Weight::new(100u8))
InvalidActionThreshold == 100

(***************************************************************************)
(* Values.                                                                 *)
(***************************************************************************)

\* The slot of the Accept event, and the slot of the event the test driver
\* injects with an EventMetadata of its own.
AcceptSlot == "accept"
InjectSlot == "inject"
Slots == {AcceptSlot, InjectSlot}

AccountHashes == {"alice", "bob"}
\* AccountHash::default()
DefaultAccountHash == "default"

ClientSource == [kind |-> "Client", node |-> "-"]
PeerSource(n) == [kind |-> "Peer", node |-> n]
NodeIds == {"n1", "n2"}
Sources == {ClientSource} \cup {PeerSource(n) : n \in NodeIds}

\* ExecutableDeployItem.  `len` is the length of inline module bytes,
\* `version` the requested package version (0: none requested).
Item(kind, len, entry_point, version) ==
    [kind |-> kind, len |-> len, entry_point |-> entry_point, version |-> version]
ModuleBytes(len) == Item("ModuleBytes", len, "-", 0)
Transfer == Item("Transfer", 0, "-", 0)
StoredContractByHash(ep) == Item("StoredContractByHash", 0, ep, 0)
StoredContractByName(ep) == Item("StoredContractByName", 0, ep, 0)
StoredVersionedContractByHash(ep, v) == Item("StoredVersionedContractByHash", 0, ep, v)
StoredVersionedContractByName(ep, v) == Item("StoredVersionedContractByName", 0, ep, v)

\* The entry point Contract::default() has, and one it lacks.
DefaultEntryPoint == "call"
MissingEntryPointName == "non-existent-entry-point"
\* The version the deploys of the MissingContractVersion scenarios request;
\* ContractPackage::default() holds no version.
RequestedVersion == 6

\* A deploy: its content hash `id`, the structural defect it carries, the
\* account that pays, the public keys that signed it, and its two items.
Deploy(id, defect, account, approvals, payment, session) ==
    [id |-> id, defect |-> defect, account |-> account, approvals |-> approvals,
     payment |-> payment, session |-> session]

\* Deploy::random_valid_native_transfer: standard payment, a native transfer
\* as session, signed by the paying account.
random_valid_native_transfer(id) ==
    Deploy(id, "none", "alice", {"alice"}, ModuleBytes(0), Transfer)


(***************************************************************************)
(* The test scenarios (tests.rs).                                          *)
(***************************************************************************)

Scenario(name, c) == [name |-> name, c |-> c]
\* enum ContractScenario
ContractScenario ==
    {"Valid", "MissingContractAtHash", "MissingContractAtName", "MissingEntryPoint"}
\* enum ContractPackageScenario
ContractPackageScenario ==
    {"Valid", "MissingPackageAtHash", "MissingPackageAtName", "MissingContractVersion"}
\* enum TestScenario
TestScenario ==
    {Scenario(n, "-") : n \in
        {"FromPeerInvalidDeploy", "FromPeerValidDeploy", "FromPeerRepeatedValidDeploy",
         "FromClientInvalidDeploy", "FromClientMissingAccount",
         "FromClientInsufficientBalance", "FromClientValidDeploy",
         "FromClientRepeatedValidDeploy", "AccountWithInsufficientWeight",
         "AccountWithInvalidAssociatedKeys", "AccountWithUnknownBalance",
         "DeployWithNativeTransferInPayment", "DeployWithEmptySessionModuleBytes",
         "BalanceCheckForDeploySentByPeer"}}
    \cup {Scenario(n, c) : n \in {"DeployWithCustomPaymentContract",
                                  "DeployWithSessionContract"},
                           c \in ContractScenario}
    \cup {Scenario(n, c) : n \in {"DeployWithCustomPaymentContractPackage",
                                  "DeployWithSessionContractPackage"},
                           c \in ContractPackageScenario}

\* A TestScenario::source whose FromPeerValidDeploy arm answers Source::Client.
source_is_peer_but_valid(scn) ==
    scn.name \in {"FromPeerInvalidDeploy", "FromPeerRepeatedValidDeploy",
                  "BalanceCheckForDeploySentByPeer"}

\* A TestScenario::source whose BalanceCheckForDeploySentByPeer arm answers
\* Source::Client.
source_is_peer_but_balance_check(scn) ==
    scn.name \in {"FromPeerInvalidDeploy", "FromPeerValidDeploy",
                  "FromPeerRepeatedValidDeploy"}

\* TestScenario::source: TRUE when the scenario's source is Source::Peer(_).
source_is_peer(scn) ==
    scn.name \in {"FromPeerInvalidDeploy", "FromPeerValidDeploy",
                  "FromPeerRepeatedValidDeploy", "BalanceCheckForDeploySentByPeer"}

\* A TestScenario::source that answers Source::Client for every scenario.
source_always_client(scn, node) == ClientSource

\* TestScenario::source, the peer's NodeId being drawn at random.
source(scn, node) == IF source_is_peer(scn) THEN PeerSource(node) ELSE ClientSource

\* An invalidate that leaves the deploy as it was.
invalidate_noop(d) == d

\* Deploy::invalidate: the content no longer matches the deploy's hash.
invalidate(d) == [d EXCEPT !.defect = "hash"]

\* A TestScenario::deploy whose MissingEntryPoint arms name the default
\* entry point.
contract_item_default_entry_point(c) ==
    IF c \in {"Valid", "MissingContractAtName"}
    THEN StoredContractByName(DefaultEntryPoint)
    ELSE StoredContractByHash(DefaultEntryPoint)

\* TestScenario::deploy, the ContractScenario arms
contract_item(c) ==
    IF c \in {"Valid", "MissingContractAtName"}
    THEN StoredContractByName(DefaultEntryPoint)
    ELSE IF c = "MissingEntryPoint"
    THEN StoredContractByHash(MissingEntryPointName)
    ELSE StoredContractByHash(DefaultEntryPoint)

\* A TestScenario::deploy whose MissingContractVersion arms name no version.
package_item_without_version(c) ==
    IF c \in {"Valid", "MissingPackageAtName"}
    THEN StoredVersionedContractByName(DefaultEntryPoint, 0)
    ELSE StoredVersionedContractByHash(DefaultEntryPoint, 0)

\* TestScenario::deploy, the ContractPackageScenario arms
package_item(c) ==
    IF c \in {"Valid", "MissingPackageAtName"}
    THEN StoredVersionedContractByName(DefaultEntryPoint, 0)
    ELSE IF c = "MissingPackageAtHash"
    THEN StoredVersionedContractByHash(DefaultEntryPoint, 0)
    ELSE StoredVersionedContractByHash(DefaultEntryPoint, RequestedVersion)

\* A TestScenario::deploy whose DeployWithNativeTransferInPayment arm
\* returns the valid deploy as it is.
deploy_without_transfer_in_payment(scn, id) ==
    LET d == random_valid_native_transfer(id) IN
    CASE scn.name \in {"FromPeerInvalidDeploy", "FromClientInvalidDeploy"} ->
            invalidate(d)
      [] scn.name = "DeployWithCustomPaymentContract" ->
            [d EXCEPT !.payment = contract_item(scn.c)]
      [] scn.name = "DeployWithCustomPaymentContractPackage" ->
            [d EXCEPT !.payment = package_item(scn.c)]
      [] scn.name = "DeployWithSessionContract" ->
            [d EXCEPT !.session = contract_item(scn.c)]
      [] scn.name = "DeployWithSessionContractPackage" ->
            [d EXCEPT !.session = package_item(scn.c)]
      [] scn.name = "DeployWithEmptySessionModuleBytes" ->
            [d EXCEPT !.session = ModuleBytes(0)]
      [] OTHER -> d

\* A TestScenario::deploy whose DeployWithEmptySessionModuleBytes arm gives
\* the session module bytes of length one.
deploy_with_nonempty_session(scn, id) ==
    LET d == random_valid_native_transfer(id) IN
    CASE scn.name \in {"FromPeerInvalidDeploy", "FromClientInvalidDeploy"} ->
            invalidate(d)
      [] scn.name = "DeployWithCustomPaymentContract" ->
            [d EXCEPT !.payment = contract_item(scn.c)]
      [] scn.name = "DeployWithCustomPaymentContractPackage" ->
            [d EXCEPT !.payment = package_item(scn.c)]
      [] scn.name = "DeployWithSessionContract" ->
            [d EXCEPT !.session = contract_item(scn.c)]
      [] scn.name = "DeployWithSessionContractPackage" ->
            [d EXCEPT !.session = package_item(scn.c)]
      [] scn.name = "DeployWithEmptySessionModuleBytes" ->
            [d EXCEPT !.session = ModuleBytes(1)]
      [] scn.name = "DeployWithNativeTransferInPayment" ->
            [d EXCEPT !.payment = Transfer]
      [] OTHER -> d

\* TestScenario::deploy
deploy(scn, id) ==
    LET d == random_valid_native_transfer(id) IN
    CASE scn.name \in {"FromPeerInvalidDeploy", "FromClientInvalidDeploy"} ->
            invalidate(d)
      [] scn.name = "DeployWithCustomPaymentContract" ->
            [d EXCEPT !.payment = contract_item(scn.c)]
      [] scn.name = "DeployWithCustomPaymentContractPackage" ->
            [d EXCEPT !.payment = package_item(scn.c)]
      [] scn.name = "DeployWithSessionContract" ->
            [d EXCEPT !.session = contract_item(scn.c)]
      [] scn.name = "DeployWithSessionContractPackage" ->
            [d EXCEPT !.session = package_item(scn.c)]
      [] scn.name = "DeployWithEmptySessionModuleBytes" ->
            [d EXCEPT !.session = ModuleBytes(0)]
      [] scn.name = "DeployWithNativeTransferInPayment" ->
            [d EXCEPT !.payment = Transfer]
      [] OTHER -> d

\* An is_valid_deploy_case that takes every contract and package scenario
\* for valid, whatever the scenario within.
is_valid_deploy_case_any_contract(scn) ==
    \/ scn.name \in {"FromPeerRepeatedValidDeploy", "FromPeerValidDeploy",
                     "FromClientRepeatedValidDeploy", "FromClientValidDeploy"}
    \/ scn.name \in {"DeployWithCustomPaymentContract", "DeployWithSessionContract",
                     "DeployWithCustomPaymentContractPackage",
                     "DeployWithSessionContractPackage"}

\* TestScenario::is_valid_deploy_case
is_valid_deploy_case(scn) ==
    \/ scn.name \in {"FromPeerRepeatedValidDeploy", "FromPeerValidDeploy",
                     "FromClientRepeatedValidDeploy", "FromClientValidDeploy"}
    \/ /\ scn.name \in {"DeployWithCustomPaymentContract", "DeployWithSessionContract",
                        "DeployWithCustomPaymentContractPackage",
                        "DeployWithSessionContractPackage"}
       /\ scn.c = "Valid"

\* An is_repeated_deploy_case that leaves out the peer's scenario.
is_repeated_deploy_case_client_only(scn) ==
    scn.name \in {"FromClientRepeatedValidDeploy"}

\* TestScenario::is_repeated_deploy_case
is_repeated_deploy_case(scn) ==
    scn.name \in {"FromClientRepeatedValidDeploy", "FromPeerRepeatedValidDeploy"}

(***************************************************************************)
(* Global-state values and the answers of the contract runtime.            *)
(***************************************************************************)

StoredValue(type, account_hash, associated_keys, deployment, entry_points, versions) ==
    [type |-> type, account_hash |-> account_hash,
     associated_keys |-> associated_keys, deployment |-> deployment,
     entry_points |-> entry_points, versions |-> versions]
NoKeys == [k \in {} |-> 0]
NoValue == StoredValue("None", "-", NoKeys, 0, {}, {})
\* StoredValue::Account(Account::new(.., associated_keys, action_thresholds))
AccountValue(h, keys, deployment) == StoredValue("Account", h, keys, deployment, {}, {})
\* Account::create: the account's own key with weight 1, thresholds of 1.
AccountCreate(h) == AccountValue(h, [k \in {h} |-> 1], 1)
\* StoredValue::Contract
ContractValue(entry_points) == StoredValue("Contract", "-", NoKeys, 0, entry_points, {})
ContractDefault == ContractValue({DefaultEntryPoint})
\* StoredValue::ContractPackage, with its enabled versions
ContractPackageValue(versions) ==
    StoredValue("ContractPackage", "-", NoKeys, 0, {}, versions)
ContractPackageDefault == ContractPackageValue({})

\* An answer of the contract runtime: a QueryResult or a BalanceResult.
Answer(tag, value, motes) == [tag |-> tag, value |-> value, motes |-> motes]
NoAnswer == Answer("None", NoValue, 0)
\* QueryResult
QuerySuccess(value) == Answer("Success", value, 0)
ValueNotFound == Answer("ValueNotFound", NoValue, 0)
\* BalanceResult
BalanceSuccess(motes) == Answer("Success", NoValue, motes)
RootNotFound == Answer("RootNotFound", NoValue, 0)

\* Key::Account(_) and Key::Hash(_)
AccountKey(h) == [kind |-> "Account", hash |-> h]
HashKey == [kind |-> "Hash", hash |-> "-"]

(***************************************************************************)
(* The test reactor's answers (Reactor::dispatch_event, ContractRuntime).  *)
(***************************************************************************)

\* A Query arm that builds every account under AccountHash::default().
query_account_default_hash(scn, account_hash) == AccountCreate(DefaultAccountHash)

\* A Query arm whose AccountWithInsufficientWeight account keeps the
\* thresholds of Account::create.
query_account_preset_thresholds(scn, account_hash) ==
    IF scn.name = "AccountWithInvalidAssociatedKeys"
    THEN AccountCreate(DefaultAccountHash)
    ELSE AccountCreate(account_hash)

\* A Query arm whose AccountWithInvalidAssociatedKeys account is created
\* under the queried account hash.
query_account_queried_hash(scn, account_hash) ==
    IF scn.name = "AccountWithInsufficientWeight"
    THEN LET preset == AccountCreate(account_hash) IN
         AccountValue(preset.account_hash, preset.associated_keys,
                      InvalidActionThreshold)
    ELSE AccountCreate(account_hash)

\* The account the Query arm builds for a Key::Account with an empty path.
query_account(scn, account_hash) ==
    IF scn.name = "AccountWithInvalidAssociatedKeys"
    THEN AccountCreate(DefaultAccountHash)
    ELSE IF scn.name = "AccountWithInsufficientWeight"
    THEN LET preset == AccountCreate(account_hash) IN
         AccountValue(preset.account_hash, preset.associated_keys,
                      InvalidActionThreshold)
    ELSE AccountCreate(account_hash)

\* A Query arm for a named key that holds a package in every package
\* scenario.
query_named_key_package_always_found(scn) ==
    CASE scn.name \in {"DeployWithCustomPaymentContractPackage",
                       "DeployWithSessionContractPackage"} ->
            QuerySuccess(ContractPackageDefault)
      [] scn.name \in {"DeployWithSessionContract",
                       "DeployWithCustomPaymentContract"} ->
            IF scn.c \in {"Valid", "MissingEntryPoint"}
            THEN QuerySuccess(ContractDefault)
            ELSE ValueNotFound
      [] OTHER -> ValueNotFound

\* The Query arm for a Key::Account with a path (a named key).
query_named_key(scn) ==
    CASE scn.name \in {"DeployWithCustomPaymentContractPackage",
                       "DeployWithSessionContractPackage"} ->
            IF scn.c \in {"Valid", "MissingContractVersion"}
            THEN QuerySuccess(ContractPackageDefault)
            ELSE ValueNotFound
      [] scn.name \in {"DeployWithSessionContract",
                       "DeployWithCustomPaymentContract"} ->
            IF scn.c \in {"Valid", "MissingEntryPoint"}
            THEN QuerySuccess(ContractDefault)
            ELSE ValueNotFound
      [] OTHER -> ValueNotFound

\* A Query arm for Key::Hash that holds a contract in every contract
\* scenario.
query_hash_contract_always_found(scn) ==
    CASE scn.name \in {"DeployWithSessionContract",
                       "DeployWithCustomPaymentContract"} ->
            QuerySuccess(ContractDefault)
      [] scn.name \in {"DeployWithSessionContractPackage",
                       "DeployWithCustomPaymentContractPackage"} ->
            IF scn.c \in {"Valid", "MissingContractVersion"}
            THEN QuerySuccess(ContractPackageDefault)
            ELSE ValueNotFound
      [] OTHER -> ValueNotFound

\* The Query arm for a Key::Hash.
query_hash(scn) ==
    CASE scn.name \in {"DeployWithSessionContract",
                       "DeployWithCustomPaymentContract"} ->
            IF scn.c \in {"Valid", "MissingEntryPoint"}
            THEN QuerySuccess(ContractDefault)
            ELSE ValueNotFound
      [] scn.name \in {"DeployWithSessionContractPackage",
                       "DeployWithCustomPaymentContractPackage"} ->
            IF scn.c \in {"Valid", "MissingContractVersion"}
            THEN QuerySuccess(ContractPackageDefault)
            ELSE ValueNotFound
      [] OTHER -> ValueNotFound

\* A Query arm without the early ValueNotFound of FromClientMissingAccount.
query_result_account_always_found(scn, key, path_is_empty) ==
    IF key.kind = "Account"
    THEN IF path_is_empty
         THEN QuerySuccess(query_account(scn, key.hash))
         ELSE query_named_key(scn)
    ELSE query_hash(scn)

\* ContractRuntimeRequest::Query: the query_result the responder is given.
query_result(scn, key, path_is_empty) ==
    IF scn.name = "FromClientMissingAccount"
    THEN ValueNotFound
    ELSE IF key.kind = "Account"
    THEN IF path_is_empty
         THEN QuerySuccess(query_account(scn, key.hash))
         ELSE query_named_key(scn)
    ELSE query_hash(scn)

\* A GetBalance arm that answers MAX_PAYMENT_AMOUNT in every scenario.
balance_motes_always_max(scn) == MAX_PAYMENT_AMOUNT

\* ContractRuntimeRequest::GetBalance: the motes of the answer.
balance_motes(scn) ==
    IF scn.name = "FromClientInsufficientBalance"
    THEN MAX_PAYMENT_AMOUNT - 1
    ELSE MAX_PAYMENT_AMOUNT

\* A GetBalance arm that answers BalanceResult::Success in every scenario.
balance_result_always_success(scn) == BalanceSuccess(balance_motes(scn))

\* ContractRuntimeRequest::GetBalance: the balance_result the responder is given.
balance_result(scn) ==
    IF scn.name = "AccountWithUnknownBalance"
    THEN RootNotFound
    ELSE BalanceSuccess(balance_motes(scn))

(***************************************************************************)
(* The validators of the pipeline (specification, section 4).              *)
(***************************************************************************)

\* super::Error: InvalidDeployConfiguration(_) and
\* InvalidDeployParameters { failure, .. }
Error(error, failure) == [error |-> error, failure |-> failure]
Ok == Error("Ok", "-")
InvalidDeployConfiguration(detail) == Error("InvalidDeployConfiguration", detail)
InvalidDeployParameters(failure) == Error("InvalidDeployParameters", failure)

StructuralDefects == {"hash", "signature", "size", "ttl"}

\* 4.1 Structural Validator, checks (1) to (6) in order.  `session_rule`
\* says whether check (6) is applied to this deploy.
StructuralValidator(d, session_rule) ==
    IF d.defect = "hash" THEN InvalidDeployConfiguration("hash")
    ELSE IF d.defect = "signature" THEN InvalidDeployConfiguration("signature")
    ELSE IF d.defect = "size" THEN InvalidDeployConfiguration("size")
    ELSE IF d.defect = "ttl" THEN InvalidDeployConfiguration("ttl")
    ELSE IF d.payment.kind = "Transfer"
    THEN InvalidDeployParameters("InvalidPaymentVariant")
    ELSE IF session_rule /\ d.session.kind = "ModuleBytes" /\ d.session.len = 0
    THEN InvalidDeployParameters("MissingModuleBytes")
    ELSE Ok

\* Whether check (6) applies: always for a client; left open for a peer.
SessionRuleChoices(src) == IF src.kind = "Client" THEN {TRUE} ELSE BOOLEAN

\* The sum of the weights of the keys in `keys`.
RECURSIVE WeightSum(_, _)
WeightSum(associated_keys, keys) ==
    IF keys = {} THEN 0
    ELSE LET k == CHOOSE x \in keys : TRUE IN
         associated_keys[k] + WeightSum(associated_keys, keys \ {k})

\* 4.3 Authorization Validator: (a) associated keys, then (b) weight.
AuthorizationValidator(account, approvals) ==
    IF ~(approvals \subseteq DOMAIN account.associated_keys)
    THEN InvalidDeployParameters("InvalidAssociatedKeys")
    ELSE IF WeightSum(account.associated_keys, approvals) < account.deployment
    THEN InvalidDeployParameters("InsufficientDeploySignatureWeight")
    ELSE Ok

\* 4.4 Balance Validator, on the answer of the purse-balance query.
BalanceValidator(answer) ==
    IF answer.tag # "Success"
    THEN InvalidDeployParameters("UnknownBalance")
    ELSE IF answer.motes < MAX_PAYMENT_AMOUNT
    THEN InvalidDeployParameters("InsufficientBalance")
    ELSE Ok

ContractKinds == {"StoredContractByHash", "StoredContractByName"}
PackageKinds == {"StoredVersionedContractByHash", "StoredVersionedContractByName"}
ByHashKinds == {"StoredContractByHash", "StoredVersionedContractByHash"}

\* A resolver that looks every item up, inline or not.
NeedsLookup_for_every_item(item) == TRUE

\* 4.5: whether an item references a stored contract or package.
NeedsLookup(item) == item.kind \in ContractKinds \cup PackageKinds

\* 4.5: the key and path of the lookup of an item: a hash, or a named key
\* of the paying account.
LookupKey(d, item) ==
    IF item.kind \in ByHashKinds THEN HashKey ELSE AccountKey(d.account)

\* 4.5 Contract/Package Resolver, on the answer of one item's lookup.
ContractValidator(item, answer) ==
    IF item.kind \in ContractKinds
    THEN IF answer.tag # "Success" \/ answer.value.type # "Contract"
         THEN IF item.kind = "StoredContractByHash"
              THEN InvalidDeployParameters("NonexistentContractAtHash")
              ELSE InvalidDeployParameters("NonexistentContractAtName")
         ELSE IF item.entry_point \notin answer.value.entry_points
         THEN InvalidDeployParameters("NonexistentContractEntryPoint")
         ELSE Ok
    ELSE IF answer.tag # "Success" \/ answer.value.type # "ContractPackage"
         THEN IF item.kind = "StoredVersionedContractByHash"
              THEN InvalidDeployParameters("NonexistentContractPackageAtHash")
              ELSE InvalidDeployParameters("NonexistentContractPackageAtName")
         ELSE IF item.version # 0 /\ item.version \notin answer.value.versions
         THEN InvalidDeployParameters("InvalidContractAtVersion")
         ELSE Ok

(***************************************************************************)
(* The consensus era identifier: EraId(u64) and its operations.            *)
(***************************************************************************)

\* The values of one byte (256 in the build).
ByteBase == 4
\* The bytes of a serialized u64 (8 in the build).
U64_SERIALIZED_LENGTH == 2

RECURSIVE Power(_, _)
Power(b, n) == IF n = 0 THEN 1 ELSE b * Power(b, n - 1)

\* 2^64 in the build: the number of u64 values.
U64Modulus == Power(ByteBase, U64_SERIALIZED_LENGTH)
\* u64::MAX
U64_MAX == U64Modulus - 1
U64 == 0..U64_MAX
Bytes == 0..(ByteBase - 1)

\* What an operation returns: an era, an Option of one, bytes, a length or
\* a parse with its remainder; or the panic of an arithmetic overflow.
EraResult(tag, value, bytes) == [tag |-> tag, value |-> value, bytes |-> bytes]
EraId(v) == EraResult("EraId", v, <<>>)
Some(v) == EraResult("Some", v, <<>>)
None == EraResult("None", 0, <<>>)
OverflowPanic == EraResult("Panic", 0, <<>>)
NotRun == EraResult("NotRun", 0, <<>>)

\* u64 `+`: a panic when the build checks overflow, the sum modulo 2^64
\* when it does not.
u64_add(a, x, overflow_checks) ==
    IF a + x <= U64_MAX THEN EraId(a + x)
    ELSE IF overflow_checks THEN OverflowPanic
    ELSE EraId((a + x) % U64Modulus)

\* u64 `-`: a panic when the build checks overflow, the difference modulo
\* 2^64 when it does not.
u64_sub(a, x, overflow_checks) ==
    IF x <= a THEN EraId(a - x)
    ELSE IF overflow_checks THEN OverflowPanic
    ELSE EraId((a + U64Modulus - x) % U64Modulus)

\* u64::checked_sub
u64_checked_sub(a, x) == IF x <= a THEN Some(a - x) ELSE None
\* u64::saturating_sub
u64_saturating_sub(a, x) == IF x <= a THEN a - x ELSE 0
\* u64::saturating_add
u64_saturating_add(a, x) == IF a + x <= U64_MAX THEN a + x ELSE U64_MAX

\* EraId::successor
successor(e, overflow_checks) == u64_add(e, 1, overflow_checks)
\* A checked_sub that wraps around zero as u64::wrapping_sub does.
checked_sub_wrapping(e, x) == Some((e + U64Modulus - x) % U64Modulus)

\* EraId::checked_sub
checked_sub(e, x) == u64_checked_sub(e, x)
\* A saturating_sub that wraps around zero as u64::wrapping_sub does.
saturating_sub_wrapping(e, x) == EraId((e + U64Modulus - x) % U64Modulus)

\* EraId::saturating_sub
saturating_sub(e, x) == EraId(u64_saturating_sub(e, x))
\* A saturating_add that wraps around u64::MAX as u64::wrapping_add does.
saturating_add_wrapping(e, x) == EraId((e + x) % U64Modulus)

\* EraId::saturating_add
saturating_add(e, x) == EraId(u64_saturating_add(e, x))
\* EraId::is_genesis
is_genesis(e) == e = 0
\* impl Add<u64> for EraId
EraId_add(e, x, overflow_checks) == u64_add(e, x, overflow_checks)
\* impl Sub<u64> for EraId
EraId_sub(e, x, overflow_checks) == u64_sub(e, x, overflow_checks)

\* u64::to_le_bytes: the least significant byte first.
to_le_bytes(v) ==
    [i \in 1..U64_SERIALIZED_LENGTH |-> (v \div Power(ByteBase, i - 1)) % ByteBase]

RECURSIVE from_le_bytes(_)
\* u64::from_le_bytes
from_le_bytes(bytes) ==
    IF bytes = <<>> THEN 0
    ELSE Head(bytes) + ByteBase * from_le_bytes(Tail(bytes))

\* bytesrepr: <u64 as ToBytes>::to_bytes
u64_to_bytes(v) == EraResult("Bytes", 0, to_le_bytes(v))
\* bytesrepr: <u64 as ToBytes>::serialized_length
u64_serialized_length(v) == U64_SERIALIZED_LENGTH
\* bytesrepr: <u64 as FromBytes>::from_bytes, which splits the stream at the
\* length of a u64 or fails on a stream that ends early.
u64_from_bytes(bytes) ==
    IF Len(bytes) < U64_SERIALIZED_LENGTH
    THEN EraResult("EarlyEndOfStream", 0, <<>>)
    ELSE EraResult("Parsed",
                   from_le_bytes(SubSeq(bytes, 1, U64_SERIALIZED_LENGTH)),
                   SubSeq(bytes, U64_SERIALIZED_LENGTH + 1, Len(bytes)))

\* impl ToBytes for EraId: to_bytes
to_bytes(e) == u64_to_bytes(e)
\* impl ToBytes for EraId: serialized_length
serialized_length(e) == u64_serialized_length(e)
\* A from_bytes that returns the stream it was given in place of the
\* remainder.
from_bytes_returning_stream(bytes) ==
    LET r == u64_from_bytes(bytes) IN
    IF r.tag # "Parsed" THEN r
    ELSE EraResult("Parsed", r.value, bytes)

\* impl FromBytes for EraId: the error of the u64 passed on by `?`, else the
\* era of the parsed value with the remainder.
from_bytes(bytes) ==
    LET r == u64_from_bytes(bytes) IN
    IF r.tag # "Parsed" THEN r
    ELSE EraResult("Parsed", r.value, r.bytes)

(***************************************************************************)
(* State.                                                                  *)
(***************************************************************************)

VARIABLES
    host,             \* "TestReactor" (tests.rs) or "Node"
    test_scenario,    \* Reactor::test_scenario
    pc,               \* where run_deploy_acceptor_without_timeout stands
    sub,              \* per slot: the EventMetadata, its pending events, what it did
    storage,          \* Reactor::storage: the deploys stored
    panicked,         \* the reactor's thread has panicked
    condition_result, \* ConditionCheckReactor::condition_result
    storage_assertion,\* the outcome of the driver's assertion on storage
    test_result,      \* what deploy_receiver.await yields
    era               \* an era, a u64 and the operation applied to them

vars == <<host, test_scenario, pc, sub, storage, panicked, condition_result,
          storage_assertion, test_result, era>>

\* No era operation is under way.
NoEra ==
    [self |-> 0, x |-> 0, overflow_checks |-> FALSE, op |-> "none",
     bytes |-> <<>>, out |-> NotRun]

\* An event of the reactor's queue that belongs to a slot.
Ev(type, key, path_is_empty, item, answer, is_new) ==
    [type |-> type, key |-> key, path_is_empty |-> path_is_empty, item |-> item,
     answer |-> answer, is_new |-> is_new]
NoEvent == Ev("None", HashKey, TRUE, "-", NoAnswer, FALSE)
\* super::Event::Accept
AcceptEvent == Ev("Accept", HashKey, TRUE, "-", NoAnswer, FALSE)
\* ContractRuntimeRequest::Query
QueryRequest(key, path_is_empty, item) ==
    Ev("Query", key, path_is_empty, item, NoAnswer, FALSE)
\* ContractRuntimeRequest::GetBalance
GetBalanceRequest == Ev("GetBalance", HashKey, TRUE, "-", NoAnswer, FALSE)
\* StorageRequest::PutDeploy
PutDeployRequest == Ev("PutDeploy", HashKey, TRUE, "-", NoAnswer, FALSE)
\* super::Event::GetAccountResult
GetAccountResult(answer) == Ev("GetAccountResult", HashKey, TRUE, "account", answer, FALSE)
\* super::Event::GetBalanceResult
GetBalanceResult(answer) == Ev("GetBalanceResult", HashKey, TRUE, "-", answer, FALSE)
\* super::Event::GetContractResult and its package counterpart
GetContractResult(item, answer) ==
    Ev("GetContractResult", HashKey, TRUE, item, answer, FALSE)
\* super::Event::PutToStorageResult
PutToStorageResult(is_new) ==
    Ev("PutToStorageResult", HashKey, TRUE, "-", NoAnswer, is_new)

NoDeploy == Deploy(0, "none", "-", {}, Transfer, Transfer)
NoSource == [kind |-> "None", node |-> "-"]
NoResult == Error("None", "-")

\* A slot nothing was submitted in.
IdleSlot ==
    [state |-> "Idle", deploy |-> NoDeploy, source |-> NoSource, responder |-> FALSE,
     event |-> NoEvent, announcement |-> "None",
     n_account_query |-> 0, n_balance_query |-> 0, n_contract_query |-> 0,
     n_put |-> 0, n_accepted |-> 0, n_invalid |-> 0, n_duplicate |-> 0,
     announced_source |-> NoSource, reason |-> NoResult,
     n_resolved |-> 0, result |-> NoResult, stored_before |-> FALSE,
     account_answer |-> NoAnswer, balance_answer |-> NoAnswer,
     payment_answer |-> NoAnswer, session_answer |-> NoAnswer]

\* EventMetadata::new(deploy, source, maybe_responder), with the first event
\* of the slot.
EventMetadata(d, src, responder, state, event) ==
    [IdleSlot EXCEPT !.state = state, !.deploy = d, !.source = src,
                     !.responder = responder, !.event = event]

TerminalStates == {"Accepted", "DuplicateStored", "Rejected"}

\* A storage that takes any deploy it holds for the one asked for.
get_deploy_by_hash_of_any(store, id) == store # {}

\* Storage::get_deploy_by_hash(id).is_some()
get_deploy_by_hash(store, id) == \E d \in store : d.id = id

(***************************************************************************)
(* The handlers of the pipeline, on the record of one slot.                *)
(***************************************************************************)

\* 4.6, failure path: the InvalidDeploy announcement and the caller's error.
Reject(c, err) ==
    [c EXCEPT !.state = "Rejected", !.event = NoEvent,
              !.announcement = "InvalidDeploy",
              !.n_invalid = @ + 1,
              !.announced_source = c.source,
              !.reason = err,
              !.n_resolved = IF c.responder THEN @ + 1 ELSE @,
              !.result = IF c.responder THEN err ELSE @]

\* 4.6, success path: the storage put.
PutToStorage(c) ==
    [c EXCEPT !.state = "ContractsResolved", !.event = PutDeployRequest,
              !.n_put = @ + 1]

\* 4.5: the lookup of the session item, if it needs one.
VerifySession(c) ==
    IF NeedsLookup(c.deploy.session)
    THEN [c EXCEPT !.event = QueryRequest(LookupKey(c.deploy, c.deploy.session),
                                          FALSE, "session"),
                   !.n_contract_query = @ + 1]
    ELSE PutToStorage(c)

\* 4.5: the lookup of the payment item, if it needs one.
VerifyPayment(c) ==
    IF NeedsLookup(c.deploy.payment)
    THEN [c EXCEPT !.event = QueryRequest(LookupKey(c.deploy, c.deploy.payment),
                                          FALSE, "payment"),
                   !.n_contract_query = @ + 1]
    ELSE VerifySession(c)

\* Event::Accept: 4.1, then the request of 4.2.
accept(c, session_rule) ==
    LET r == StructuralValidator(c.deploy, session_rule) IN
    IF r # Ok THEN Reject(c, r)
    ELSE [c EXCEPT !.state = "StructurallyValid",
                   !.event = QueryRequest(AccountKey(c.deploy.account), TRUE, "account"),
                   !.n_account_query = @ + 1]

\* 4.2: whether the account query resolved.
AccountFound(answer) == answer.tag = "Success" /\ answer.value.type = "Account"

\* A resolver that asks for a client's account a second time when the first
\* answer did not resolve it.
handle_get_account_result_asking_again(c0, answer) ==
    LET c == [c0 EXCEPT !.account_answer = answer] IN
    IF c.source.kind = "Client"
    THEN IF ~AccountFound(answer)
         THEN IF c.n_account_query < 2
              THEN [c EXCEPT !.event = QueryRequest(AccountKey(c.deploy.account),
                                                    TRUE, "account"),
                             !.n_account_query = @ + 1]
              ELSE Reject(c, InvalidDeployParameters("NonexistentAccount"))
         ELSE LET r == AuthorizationValidator(answer.value, c.deploy.approvals) IN
              IF r # Ok THEN Reject(c, r)
              ELSE [c EXCEPT !.state = "AuthorizationChecked",
                             !.event = GetBalanceRequest,
                             !.n_balance_query = @ + 1]
    ELSE VerifyPayment([c EXCEPT !.state = IF AccountFound(answer)
                                           THEN "AccountResolved"
                                           ELSE "AccountSkippedForPeer"])

\* A resolver that sends a peer's deploy on to the balance check when its
\* account is found.
handle_get_account_result_checking_peers(c0, answer) ==
    LET c == [c0 EXCEPT !.account_answer = answer] IN
    IF c.source.kind = "Client" \/ AccountFound(answer)
    THEN IF ~AccountFound(answer)
         THEN Reject(c, InvalidDeployParameters("NonexistentAccount"))
         ELSE LET r == AuthorizationValidator(answer.value, c.deploy.approvals) IN
              IF r # Ok THEN Reject(c, r)
              ELSE [c EXCEPT !.state = "AuthorizationChecked",
                             !.event = GetBalanceRequest,
                             !.n_balance_query = @ + 1]
    ELSE VerifyPayment([c EXCEPT !.state = "AccountSkippedForPeer"])

\* Event::GetAccountResult: the outcomes of 4.2, then 4.3 and the request
\* of 4.4 for a client.
handle_get_account_result(c0, answer) ==
    LET c == [c0 EXCEPT !.account_answer = answer] IN
    IF c.source.kind = "Client"
    THEN IF ~AccountFound(answer)
         THEN Reject(c, InvalidDeployParameters("NonexistentAccount"))
         ELSE LET r == AuthorizationValidator(answer.value, c.deploy.approvals) IN
              IF r # Ok THEN Reject(c, r)
              ELSE [c EXCEPT !.state = "AuthorizationChecked",
                             !.event = GetBalanceRequest,
                             !.n_balance_query = @ + 1]
    ELSE VerifyPayment([c EXCEPT !.state = IF AccountFound(answer)
                                           THEN "AccountResolved"
                                           ELSE "AccountSkippedForPeer"])

\* 4.4: a balance result for a peer's deploy is a contract violation.
BalanceCheckPanics(c) == c.source.kind # "Client"

\* Event::GetBalanceResult for a client's deploy: 4.4.
handle_get_balance_result(c0, answer) ==
    LET c == [c0 EXCEPT !.balance_answer = answer]
        r == BalanceValidator(answer) IN
    IF r # Ok THEN Reject(c, r)
    ELSE VerifyPayment([c EXCEPT !.state = "BalanceChecked"])

\* Event::GetContractResult: 4.5 for the item the lookup was for.
handle_get_contract_result(c0, item, answer) ==
    LET c == IF item = "payment" THEN [c0 EXCEPT !.payment_answer = answer]
             ELSE [c0 EXCEPT !.session_answer = answer]
        r == ContractValidator(IF item = "payment" THEN c.deploy.payment
                               ELSE c.deploy.session, answer) IN
    IF r # Ok THEN Reject(c, r)
    ELSE IF item = "payment" THEN VerifySession(c)
    ELSE PutToStorage(c)

\* A finalizer that rejects a deploy storage already held.
handle_put_to_storage_result_rejecting_duplicate(c, is_new) ==
    IF ~is_new THEN Reject(c, InvalidDeployConfiguration("duplicate"))
    ELSE [c EXCEPT !.state = "Accepted", !.event = NoEvent,
                   !.announcement = "AcceptedNewDeploy",
                   !.n_accepted = @ + 1,
                   !.announced_source = c.source,
                   !.n_resolved = IF c.responder THEN @ + 1 ELSE @,
                   !.result = IF c.responder THEN Ok ELSE @]

\* Event::PutToStorageResult: 4.6, the acceptance announcement for a new
\* deploy only, Ok to the caller in both cases.
handle_put_to_storage_result(c, is_new) ==
    [c EXCEPT !.state = IF is_new THEN "Accepted" ELSE "DuplicateStored",
              !.event = NoEvent,
              !.announcement = IF is_new THEN "AcceptedNewDeploy" ELSE @,
              !.n_accepted = IF is_new THEN @ + 1 ELSE @,
              !.announced_source = IF is_new THEN c.source ELSE @,
              !.n_resolved = IF c.responder THEN @ + 1 ELSE @,
              !.result = IF c.responder THEN Ok ELSE @]

(***************************************************************************)
(* The hosts: the test reactor and its driver, or a node.                  *)
(***************************************************************************)

NoScenario == Scenario("None", "-")
BalanceCheckScenario == Scenario("BalanceCheckForDeploySentByPeer", "-")

\* An event as Reactor::dispatch_event and the condition checker see it.
Dispatched(kind, type, src, is_new) ==
    [kind |-> kind, type |-> type, source |-> src, is_new |-> is_new]

\* A stopping condition that matches Event::DeployAcceptor(_) in place of
\* the announcement the scenario waits for.
stopping_condition_any_acceptor_event(scn, e) ==
    e.kind = "DeployAcceptor"

\* A stopping condition that matches the storage put request in place of
\* the announcement the scenario waits for.
stopping_condition_put_request(scn, e) ==
    e.kind = "Storage" /\ e.type = "PutDeploy"

\* The stopping_condition closure of run_deploy_acceptor_without_timeout.
stopping_condition(scn, e) ==
    CASE scn.name \in {"FromClientInvalidDeploy", "FromClientMissingAccount",
                       "FromClientInsufficientBalance",
                       "DeployWithEmptySessionModuleBytes",
                       "AccountWithInvalidAssociatedKeys",
                       "AccountWithInsufficientWeight", "AccountWithUnknownBalance",
                       "DeployWithNativeTransferInPayment"} ->
            /\ e.kind = "DeployAcceptorAnnouncement" /\ e.type = "InvalidDeploy"
            /\ e.source.kind = "Client"
      [] scn.name \in {"DeployWithCustomPaymentContract", "DeployWithSessionContract",
                       "DeployWithCustomPaymentContractPackage",
                       "DeployWithSessionContractPackage"} ->
            IF scn.c = "Valid"
            THEN e.kind = "DeployAcceptorAnnouncement" /\ e.type = "AcceptedNewDeploy"
            ELSE e.kind = "DeployAcceptorAnnouncement" /\ e.type = "InvalidDeploy"
      [] scn.name \in {"FromPeerInvalidDeploy", "BalanceCheckForDeploySentByPeer"} ->
            /\ e.kind = "DeployAcceptorAnnouncement" /\ e.type = "InvalidDeploy"
            /\ e.source.kind = "Peer"
      [] scn.name = "FromPeerValidDeploy" ->
            /\ e.kind = "DeployAcceptorAnnouncement" /\ e.type = "AcceptedNewDeploy"
            /\ e.source.kind = "Peer"
      [] scn.name = "FromClientValidDeploy" ->
            /\ e.kind = "DeployAcceptorAnnouncement" /\ e.type = "AcceptedNewDeploy"
            /\ e.source.kind = "Client"
      [] scn.name \in {"FromClientRepeatedValidDeploy",
                       "FromPeerRepeatedValidDeploy"} ->
            /\ e.kind = "DeployAcceptor" /\ e.type = "PutToStorageResult"
            /\ ~e.is_new
      [] OTHER -> FALSE

\* The accounts the query service of a node may hold for an address.
NodeAccounts(h) ==
    {AccountCreate(h), AccountCreate(DefaultAccountHash),
     AccountValue(h, [k \in {h} |-> 1], InvalidActionThreshold),
     AccountValue(h, [k \in AccountHashes |-> 1], 2)}

\* resolve_account and query_contract of a node: any answer of the interface.
NodeQueryAnswers(d, ev) ==
    IF ev.item = "account"
    THEN {ValueNotFound} \cup {QuerySuccess(a) : a \in NodeAccounts(ev.key.hash)}
    ELSE LET item == IF ev.item = "payment" THEN d.payment ELSE d.session IN
         IF item.kind \in ContractKinds
         THEN {ValueNotFound, QuerySuccess(ContractDefault),
               QuerySuccess(ContractValue({}))}
         ELSE {ValueNotFound, QuerySuccess(ContractPackageDefault),
               QuerySuccess(ContractPackageValue({RequestedVersion}))}

\* purse_balance of a node: any answer of the interface.
NodeBalanceAnswers ==
    {RootNotFound}
    \cup {BalanceSuccess(m) : m \in 0..(MAX_PAYMENT_AMOUNT + BalanceSlack)}

\* The executable items of the deploys a node is sent.
NodeItems ==
    {ModuleBytes(0), ModuleBytes(1), Transfer}
    \cup {Item(k, 0, ep, 0) : k \in ContractKinds,
                              ep \in {DefaultEntryPoint, MissingEntryPointName}}
    \cup {Item(k, 0, DefaultEntryPoint, v) : k \in PackageKinds,
                                             v \in {0, RequestedVersion}}

\* The deploys a node is sent under the content hash `id`: the plain
\* transfer, defective ones, one with two signers, every item as payment
\* and as session, and deploys that fail two checks at once.
NodeDeploys(id) ==
    LET d == random_valid_native_transfer(id) IN
    {d, [d EXCEPT !.approvals = AccountHashes]}
    \cup {[d EXCEPT !.defect = x] : x \in StructuralDefects}
    \cup {[d EXCEPT !.defect = "ttl", !.payment = Transfer]}
    \cup {[d EXCEPT !.payment = Transfer, !.session = ModuleBytes(0)]}
    \cup {[d EXCEPT !.payment = i] : i \in NodeItems}
    \cup {[d EXCEPT !.session = i] : i \in NodeItems}
    \cup {[d EXCEPT !.payment = StoredContractByName(DefaultEntryPoint),
                    !.session = StoredVersionedContractByHash(DefaultEntryPoint,
                                                              RequestedVersion)]}

\* The contract runtime's answer to the Query pending in a slot.
QueryAnswers(c) ==
    IF host = "TestReactor"
    THEN {query_result(test_scenario, c.event.key, c.event.path_is_empty)}
    ELSE NodeQueryAnswers(c.deploy, c.event)

\* The contract runtime's answer to the GetBalance pending in a slot.
BalanceAnswers ==
    IF host = "TestReactor" THEN {balance_result(test_scenario)}
    ELSE NodeBalanceAnswers

Init ==
    /\ host \in {"TestReactor", "Node"}
    /\ test_scenario \in IF host = "TestReactor" THEN TestScenario ELSE {NoScenario}
    /\ pc = IF host = "TestReactor" THEN "start" ELSE "node"
    /\ sub = [s \in Slots |-> IdleSlot]
    /\ storage = {}
    /\ panicked = FALSE
    /\ condition_result = FALSE
    /\ storage_assertion = "pending"
    /\ test_result = NoResult
    /\ era = NoEra

\* Where the driver stands once the steps before `step` are done or skipped.
DriverAt(step) ==
    /\ host = "TestReactor" /\ ~panicked
    /\ CASE step = "put" -> pc = "start" /\ is_repeated_deploy_case(test_scenario)
         [] step = "inject" ->
                /\ test_scenario = BalanceCheckScenario
                /\ \/ pc = "start" /\ ~is_repeated_deploy_case(test_scenario)
                   \/ pc = "put_done"
         [] step = "schedule" ->
                \/ pc = "injected_done"
                \/ /\ test_scenario # BalanceCheckScenario
                   /\ \/ pc = "start" /\ ~is_repeated_deploy_case(test_scenario)
                      \/ pc = "put_done"

\* put_deploy_to_storage of the previously seen deploy, cranked, and the
\* assertion on its responder.
PutDeployToStorage ==
    /\ DriverAt("put")
    /\ LET d == deploy(test_scenario, 1) IN
       /\ storage' = storage \cup {d}
       /\ panicked' = get_deploy_by_hash(storage, d.id)
    /\ pc' = "put_done"
    /\ UNCHANGED <<era, host, test_scenario, sub, condition_result, storage_assertion,
                   test_result>>

\* inject_balance_check_for_peer: a GetBalanceResult with an EventMetadata
\* of its own, whose receiver is dropped.
InjectBalanceCheckForPeer ==
    /\ DriverAt("inject")
    /\ \E n \in NodeIds :
          sub' = [sub EXCEPT ![InjectSlot] =
                    EventMetadata(deploy(test_scenario, 1), source(test_scenario, n),
                                  TRUE, "Injected", GetBalanceResult(NoAnswer))]
    /\ pc' = "crank_injected"
    /\ UNCHANGED <<era, host, test_scenario, storage, panicked, condition_result,
                   storage_assertion, test_result>>

\* A schedule_accept_deploy whose Event::Accept has maybe_responder: None.
ScheduleAcceptDeployWithoutResponder ==
    /\ DriverAt("schedule")
    /\ \E n \in NodeIds :
          LET d == deploy(test_scenario, 1)
              src == source(test_scenario, n) IN
          /\ sub[InjectSlot].state # "Idle" => src = sub[InjectSlot].source
          /\ sub' = [sub EXCEPT ![AcceptSlot] =
                        [EventMetadata(d, src, FALSE, "Received", AcceptEvent)
                            EXCEPT !.stored_before = get_deploy_by_hash(storage, d.id)]]
    /\ pc' = "crank"
    /\ UNCHANGED <<era, host, test_scenario, storage, panicked, condition_result,
                   storage_assertion, test_result>>

\* schedule_accept_deploy: Event::Accept with maybe_responder: Some(_), and
\* with the source the injected event, if any, was given.
ScheduleAcceptDeploy ==
    /\ DriverAt("schedule")
    /\ \E n \in NodeIds :
          LET d == deploy(test_scenario, 1)
              src == source(test_scenario, n) IN
          /\ sub[InjectSlot].state # "Idle" => src = sub[InjectSlot].source
          /\ sub' = [sub EXCEPT ![AcceptSlot] =
                        [EventMetadata(d, src, TRUE, "Received", AcceptEvent)
                            EXCEPT !.stored_before = get_deploy_by_hash(storage, d.id)]]
    /\ pc' = "crank"
    /\ UNCHANGED <<era, host, test_scenario, storage, panicked, condition_result,
                   storage_assertion, test_result>>

\* The assertion on storage once the stopping condition has held.
CheckStorage ==
    /\ host = "TestReactor" /\ ~panicked /\ pc = "check"
    /\ LET is_in_storage == get_deploy_by_hash(storage, sub[AcceptSlot].deploy.id) IN
       storage_assertion' =
          IF is_in_storage = is_valid_deploy_case(test_scenario)
          THEN "passed" ELSE "failed"
    /\ panicked' = (storage_assertion' = "failed")
    /\ pc' = "await"
    /\ UNCHANGED <<era, host, test_scenario, sub, storage, condition_result, test_result>>

\* deploy_receiver.await.unwrap()
AwaitDeployReceiver ==
    /\ host = "TestReactor" /\ ~panicked /\ pc = "await"
    /\ sub[AcceptSlot].n_resolved > 0
    /\ test_result' = sub[AcceptSlot].result
    /\ pc' = "done"
    /\ UNCHANGED <<era, host, test_scenario, sub, storage, panicked, condition_result,
                   storage_assertion>>

\* A node is handed a deploy by a client or a peer, with or without a
\* responder.  A content hash names one deploy.
NodeAccept ==
    /\ host = "Node" /\ ~panicked
    /\ sub[AcceptSlot].state = "Idle"
    /\ \E id \in 1..MaxDeployId, src \in Sources, responder \in BOOLEAN :
          \E d \in NodeDeploys(id) :
             /\ \A x \in storage : x.id = id => x = d
             /\ sub' = [sub EXCEPT ![AcceptSlot] =
                          [EventMetadata(d, src, responder, "Received", AcceptEvent)
                              EXCEPT !.stored_before = get_deploy_by_hash(storage, id)]]
    /\ UNCHANGED <<era, host, test_scenario, pc, storage, panicked, condition_result,
                   storage_assertion, test_result>>

\* The storage of a node already holds a deploy nobody has submitted yet.
NodeStorePut ==
    /\ host = "Node" /\ ~panicked
    /\ \A s \in Slots : sub[s].state = "Idle"
    /\ storage = {}
    /\ \E id \in 1..MaxDeployId :
          \E d \in NodeDeploys(id) :
             /\ d.defect = "none"
             /\ storage' = {d}
    /\ UNCHANGED <<era, host, test_scenario, pc, sub, panicked, condition_result,
                   storage_assertion, test_result>>

\* A crank that waits for the response of a pending request before it
\* dispatches another event.
Crank_awaiting_the_response(e) ==
    /\ ~panicked
    /\ \A t \in Slots : sub[t].event.type # "NeverAnswered"
    /\ host = "Node" \/ pc \in {"crank", "crank_injected"}
    /\ condition_result' =
          (host = "TestReactor" /\ pc = "crank" /\ stopping_condition(test_scenario, e))
    /\ pc' = IF host = "Node" THEN pc
             ELSE IF pc = "crank_injected" THEN "injected_done"
             ELSE IF condition_result' THEN "check"
             ELSE pc

\* One crank of the reactor on the event `e`: the condition checker sees
\* it, and the driver's loop ends when the condition holds.
Crank(e) ==
    /\ ~panicked
    /\ host = "Node" \/ pc \in {"crank", "crank_injected"}
    /\ condition_result' =
          (host = "TestReactor" /\ pc = "crank" /\ stopping_condition(test_scenario, e))
    /\ pc' = IF host = "Node" THEN pc
             ELSE IF pc = "crank_injected" THEN "injected_done"
             ELSE IF condition_result' THEN "check"
             ELSE pc

\* Event::DeployAcceptor(Event::Accept { .. })
DispatchAccept(s) ==
    /\ sub[s].event.type = "Accept"
    /\ Crank(Dispatched("DeployAcceptor", "Accept", sub[s].source, FALSE))
    /\ \E session_rule \in SessionRuleChoices(sub[s].source) :
          sub' = [sub EXCEPT ![s] = accept(sub[s], session_rule)]
    /\ UNCHANGED <<era, host, test_scenario, storage, panicked, storage_assertion,
                   test_result>>

\* Event::ContractRuntime(ContractRuntimeRequest::Query { .. }): the answer
\* comes back as the acceptor's result event.
DispatchQuery(s) ==
    /\ sub[s].event.type = "Query"
    /\ Crank(Dispatched("ContractRuntime", "Query", sub[s].source, FALSE))
    /\ \E answer \in QueryAnswers(sub[s]) :
          sub' = [sub EXCEPT ![s].event =
                    IF sub[s].event.item = "account"
                    THEN GetAccountResult(answer)
                    ELSE GetContractResult(sub[s].event.item, answer)]
    /\ UNCHANGED <<era, host, test_scenario, storage, panicked, storage_assertion,
                   test_result>>

\* A balance service that takes the request and never produces a response,
\* while the request stays pending.
DispatchGetBalance_never_responding(s) ==
    /\ sub[s].event.type = "GetBalance"
    /\ Crank(Dispatched("ContractRuntime", "GetBalance", sub[s].source, FALSE))
    /\ sub' = sub
    /\ UNCHANGED <<era, host, test_scenario, storage, panicked, storage_assertion,
                   test_result>>

\* Event::ContractRuntime(ContractRuntimeRequest::GetBalance { .. })
DispatchGetBalance(s) ==
    /\ sub[s].event.type = "GetBalance"
    /\ Crank(Dispatched("ContractRuntime", "GetBalance", sub[s].source, FALSE))
    /\ \E answer \in BalanceAnswers :
          sub' = [sub EXCEPT ![s].event = GetBalanceResult(answer)]
    /\ UNCHANGED <<era, host, test_scenario, storage, panicked, storage_assertion,
                   test_result>>

\* Event::DeployAcceptor(Event::GetAccountResult { .. })
DispatchGetAccountResult(s) ==
    /\ sub[s].event.type = "GetAccountResult"
    /\ Crank(Dispatched("DeployAcceptor", "GetAccountResult", sub[s].source, FALSE))
    /\ sub' = [sub EXCEPT ![s] = handle_get_account_result(sub[s], sub[s].event.answer)]
    /\ UNCHANGED <<era, host, test_scenario, storage, panicked, storage_assertion,
                   test_result>>

\* Event::DeployAcceptor(Event::GetBalanceResult { .. }): the handler
\* panics on a peer's deploy.
DispatchGetBalanceResult(s) ==
    /\ sub[s].event.type = "GetBalanceResult"
    /\ Crank(Dispatched("DeployAcceptor", "GetBalanceResult", sub[s].source, FALSE))
    /\ IF BalanceCheckPanics(sub[s])
       THEN /\ panicked' = TRUE
            /\ sub' = [sub EXCEPT ![s].state = "Panicked", ![s].event = NoEvent]
       ELSE /\ panicked' = panicked
            /\ sub' = [sub EXCEPT ![s] =
                          handle_get_balance_result(sub[s], sub[s].event.answer)]
    /\ UNCHANGED <<era, host, test_scenario, storage, storage_assertion, test_result>>

\* Event::DeployAcceptor(Event::GetContractResult { .. }), for a contract
\* or a package.
DispatchGetContractResult(s) ==
    /\ sub[s].event.type = "GetContractResult"
    /\ Crank(Dispatched("DeployAcceptor", "GetContractResult", sub[s].source, FALSE))
    /\ sub' = [sub EXCEPT ![s] =
                  handle_get_contract_result(sub[s], sub[s].event.item,
                                             sub[s].event.answer)]
    /\ UNCHANGED <<era, host, test_scenario, storage, panicked, storage_assertion,
                   test_result>>

\* Storage::put_deploy: TRUE when the deploy was not stored before.
put_deploy_is_new(store, d) == ~get_deploy_by_hash(store, d.id)

\* A storage that answers a put from what it held when the deploy was
\* handed in, not from what it holds when the put is dispatched.
DispatchPutDeploy_answering_as_of_acceptance(s) ==
    /\ sub[s].event.type = "PutDeploy"
    /\ Crank(Dispatched("Storage", "PutDeploy", sub[s].source, FALSE))
    /\ LET is_new == ~sub[s].stored_before IN
       /\ storage' = IF is_new THEN storage \cup {sub[s].deploy} ELSE storage
       /\ sub' = [sub EXCEPT ![s].state = "Stored",
                             ![s].event = PutToStorageResult(is_new),
                             ![s].n_duplicate = IF is_new THEN @ ELSE @ + 1]
    /\ UNCHANGED <<era, host, test_scenario, panicked, storage_assertion, test_result>>

\* Event::Storage(StorageRequest::PutDeploy { .. }): the storage component
\* stores the deploy once and answers whether it was new.
DispatchPutDeploy(s) ==
    /\ sub[s].event.type = "PutDeploy"
    /\ Crank(Dispatched("Storage", "PutDeploy", sub[s].source, FALSE))
    /\ LET is_new == put_deploy_is_new(storage, sub[s].deploy) IN
       /\ storage' = IF is_new THEN storage \cup {sub[s].deploy} ELSE storage
       /\ sub' = [sub EXCEPT ![s].state = "Stored",
                             ![s].event = PutToStorageResult(is_new),
                             ![s].n_duplicate = IF is_new THEN @ ELSE @ + 1]
    /\ UNCHANGED <<era, host, test_scenario, panicked, storage_assertion, test_result>>

\* Event::DeployAcceptor(Event::PutToStorageResult { .. })
DispatchPutToStorageResult(s) ==
    /\ sub[s].event.type = "PutToStorageResult"
    /\ Crank(Dispatched("DeployAcceptor", "PutToStorageResult", sub[s].source,
                        sub[s].event.is_new))
    /\ sub' = [sub EXCEPT ![s] =
                  handle_put_to_storage_result(sub[s], sub[s].event.is_new)]
    /\ UNCHANGED <<era, host, test_scenario, storage, panicked, storage_assertion,
                   test_result>>

\* Event::DeployAcceptorAnnouncement(_): the reactor does nothing with it.
DispatchAnnouncement(s) ==
    /\ sub[s].announcement # "None"
    /\ Crank(Dispatched("DeployAcceptorAnnouncement", sub[s].announcement,
                        sub[s].announced_source, FALSE))
    /\ sub' = [sub EXCEPT ![s].announcement = "None"]
    /\ UNCHANGED <<era, host, test_scenario, storage, panicked, storage_assertion,
                   test_result>>

Next ==
    \/ PutDeployToStorage
    \/ InjectBalanceCheckForPeer
    \/ ScheduleAcceptDeploy
    \/ CheckStorage
    \/ AwaitDeployReceiver
    \/ NodeAccept
    \/ NodeStorePut
    \/ \E s \in Slots : DispatchAccept(s)
    \/ \E s \in Slots : DispatchQuery(s)
    \/ \E s \in Slots : DispatchGetBalance(s)
    \/ \E s \in Slots : DispatchGetAccountResult(s)
    \/ \E s \in Slots : DispatchGetBalanceResult(s)
    \/ \E s \in Slots : DispatchGetContractResult(s)
    \/ \E s \in Slots : DispatchPutDeploy(s)
    \/ \E s \in Slots : DispatchPutToStorageResult(s)
    \/ \E s \in Slots : DispatchAnnouncement(s)

Spec == Init /\ [][Next]_vars

(***************************************************************************)
(* The operations of EraId applied to an era and a u64, in a build with or *)
(* without overflow checks.                                                *)
(***************************************************************************)

\* The streams an era is parsed from: its own bytes, with or without a byte
\* behind them, and the streams that end before them.
Streams(e) ==
    LET b == to_bytes(e).bytes IN
    {b} \cup {b \o <<y>> : y \in Bytes}
        \cup {SubSeq(b, 1, n) : n \in 0..(U64_SERIALIZED_LENGTH - 1)}

InitEraId ==
    /\ host = "EraId"
    /\ test_scenario = NoScenario
    /\ pc = "node"
    /\ sub = [s \in Slots |-> IdleSlot]
    /\ storage = {}
    /\ panicked = FALSE
    /\ condition_result = FALSE
    /\ storage_assertion = "pending"
    /\ test_result = NoResult
    /\ \E e \in U64, x \in U64, overflow_checks \in BOOLEAN :
          era = [NoEra EXCEPT !.self = e, !.x = x,
                              !.overflow_checks = overflow_checks]

\* One operation is applied to the era, and its outcome kept.
Apply(op, out) ==
    /\ era' = [era EXCEPT !.op = op, !.out = out]
    /\ UNCHANGED <<host, test_scenario, pc, sub, storage, panicked,
                   condition_result, storage_assertion, test_result>>

\* No operation has been applied to the era yet.
EraIsFresh == host = "EraId" /\ era.op = "none"

Successor ==
    /\ EraIsFresh
    /\ Apply("successor", successor(era.self, era.overflow_checks))
CheckedSub ==
    /\ EraIsFresh
    /\ Apply("checked_sub", checked_sub(era.self, era.x))
SaturatingSub ==
    /\ EraIsFresh
    /\ Apply("saturating_sub", saturating_sub(era.self, era.x))
SaturatingAdd ==
    /\ EraIsFresh
    /\ Apply("saturating_add", saturating_add(era.self, era.x))
IsGenesis ==
    /\ EraIsFresh
    /\ Apply("is_genesis",
             EraResult(IF is_genesis(era.self) THEN "true" ELSE "false", 0, <<>>))
AddU64 ==
    /\ EraIsFresh
    /\ Apply("add", EraId_add(era.self, era.x, era.overflow_checks))
SubU64 ==
    /\ EraIsFresh
    /\ Apply("sub", EraId_sub(era.self, era.x, era.overflow_checks))
ToBytes ==
    /\ EraIsFresh
    /\ Apply("to_bytes", to_bytes(era.self))
SerializedLength ==
    /\ EraIsFresh
    /\ Apply("serialized_length",
             EraResult("Length", serialized_length(era.self), <<>>))
FromBytes ==
    /\ EraIsFresh
    /\ \E stream \in Streams(era.self) :
          era' = [era EXCEPT !.op = "from_bytes", !.bytes = stream,
                             !.out = from_bytes(stream)]
    /\ UNCHANGED <<host, test_scenario, pc, sub, storage, panicked,
                   condition_result, storage_assertion, test_result>>

NextEraId ==
    \/ Successor
    \/ CheckedSub
    \/ SaturatingSub
    \/ SaturatingAdd
    \/ IsGenesis
    \/ AddU64
    \/ SubU64
    \/ ToBytes
    \/ SerializedLength
    \/ FromBytes

SpecEraId == InitEraId /\ [][NextEraId]_vars

(***************************************************************************)
(* A node with several submissions in flight: each slot holds one, their   *)
(* events interleave, and a request may be sent to a service that never    *)
(* answers it.                                                             *)
(***************************************************************************)

\* The content hashes of the deploys in flight.
ConcurrentIds == 1..(MaxDeployId + 1)
ConcurrentSources == {ClientSource, PeerSource("n1")}

\* The deploys in flight under the content hash `id`: the plain transfer, a
\* defective one, and one whose payment is a stored contract.
ConcurrentDeploys(id) ==
    LET d == random_valid_native_transfer(id) IN
    {d, [d EXCEPT !.defect = "hash"],
     [d EXCEPT !.payment = Item("StoredContractByHash", 0, DefaultEntryPoint, 0)]}

\* A request whose response never comes.
NeverAnswered == Ev("NeverAnswered", HashKey, TRUE, "-", NoAnswer, FALSE)

InitConcurrent ==
    /\ host = "Node"
    /\ test_scenario = NoScenario
    /\ pc = "node"
    /\ sub = [s \in Slots |-> IdleSlot]
    /\ storage = {}
    /\ panicked = FALSE
    /\ condition_result = FALSE
    /\ storage_assertion = "pending"
    /\ test_result = NoResult
    /\ era = NoEra

\* The node is handed a deploy while another may be in flight.  A content
\* hash names one deploy, and the hashes are numbered in the order in which
\* the node first sees them.
ConcurrentAccept(s) ==
    /\ host = "Node" /\ ~panicked
    /\ sub[s].state = "Idle"
    /\ \E id \in ConcurrentIds, src \in ConcurrentSources :
          \E d \in ConcurrentDeploys(id) :
             /\ \A j \in 1..(id - 1) : \E t \in Slots : sub[t].deploy.id = j
             /\ \A x \in storage : x.id = id => x = d
             /\ \A t \in Slots : sub[t].deploy.id = id => sub[t].deploy = d
             /\ sub' = [sub EXCEPT ![s] =
                          [EventMetadata(d, src, TRUE, "Received", AcceptEvent)
                              EXCEPT !.stored_before = get_deploy_by_hash(storage, id)]]
    /\ UNCHANGED <<era, host, test_scenario, pc, storage, panicked, condition_result,
                   storage_assertion, test_result>>

\* The request pending in a slot goes to a service that never answers it;
\* at most one submission is left waiting in this way.
LoseResponse(s) ==
    /\ host = "Node" /\ ~panicked
    /\ sub[s].event.type \in {"Query", "GetBalance", "PutDeploy"}
    /\ \A t \in Slots : sub[t].event # NeverAnswered
    /\ sub' = [sub EXCEPT ![s].event = NeverAnswered]
    /\ UNCHANGED <<era, host, test_scenario, pc, storage, panicked, condition_result,
                   storage_assertion, test_result>>

NextConcurrent ==
    \/ \E s \in Slots : ConcurrentAccept(s)
    \/ \E s \in Slots : LoseResponse(s)
    \/ \E s \in Slots : DispatchAccept(s)
    \/ \E s \in Slots : DispatchQuery(s)
    \/ \E s \in Slots : DispatchGetBalance(s)
    \/ \E s \in Slots : DispatchGetAccountResult(s)
    \/ \E s \in Slots : DispatchGetBalanceResult(s)
    \/ \E s \in Slots : DispatchGetContractResult(s)
    \/ \E s \in Slots : DispatchPutDeploy(s)
    \/ \E s \in Slots : DispatchPutToStorageResult(s)
    \/ \E s \in Slots : DispatchAnnouncement(s)

\* The dispatch of the one event a slot has in the reactor's queue.
DispatchEventOf(s) ==
    \/ DispatchAccept(s)
    \/ DispatchQuery(s)
    \/ DispatchGetBalance(s)
    \/ DispatchGetAccountResult(s)
    \/ DispatchGetBalanceResult(s)
    \/ DispatchGetContractResult(s)
    \/ DispatchPutDeploy(s)
    \/ DispatchPutToStorageResult(s)
    \/ DispatchAnnouncement(s)

\* The reactor dispatches every event of its queue, and a service that
\* answers a request does answer it: no event of a slot waits for ever.
FairDispatch == \A s \in Slots : WF_vars(DispatchEventOf(s))

SpecConcurrent == InitConcurrent /\ [][NextConcurrent]_vars /\ FairDispatch

(***************************************************************************)
(* What the claims speak of, read off a slot's record: the deploy, the     *)
(* answers the slot was given, and what it has put out.                    *)
(***************************************************************************)

\* The slot began with an Accept event.
Submitted(c) == c.state \notin {"Idle", "Injected", "Panicked"}
Terminal(c) == c.state \in TerminalStates
\* The announcement of a terminal slot has been dispatched.
Settled(c) == Terminal(c) /\ c.announcement = "None"

\* Bad hash, bad signature, oversize or TTL out of range.
HasDefect(d) == d.defect \in StructuralDefects
\* Checks (1) to (6) of the structural stage.
PassesStructure(d) ==
    /\ d.defect = "none"
    /\ d.payment.kind # "Transfer"
    /\ ~(d.session.kind = "ModuleBytes" /\ d.session.len = 0)

AccountResolved(c) ==
    c.account_answer.tag = "Success" /\ c.account_answer.value.type = "Account"
AccountMissing(c) == c.account_answer.tag = "ValueNotFound"
\* Every signer is an associated key, and the signers' weights reach the
\* deployment threshold.
Authorized(c) ==
    /\ c.deploy.approvals \subseteq DOMAIN c.account_answer.value.associated_keys
    /\ WeightSum(c.account_answer.value.associated_keys, c.deploy.approvals)
          >= c.account_answer.value.deployment
BalanceKnown(c) == c.balance_answer.tag = "Success"
BalanceSufficient(c) == BalanceKnown(c) /\ c.balance_answer.motes >= MAX_PAYMENT_AMOUNT

\* The item needs no lookup, or its lookup found what it names.
ItemResolves(item, answer) ==
    \/ item.kind \in {"ModuleBytes", "Transfer"}
    \/ /\ item.kind \in {"StoredContractByHash", "StoredContractByName"}
       /\ answer.tag = "Success" /\ answer.value.type = "Contract"
       /\ item.entry_point \in answer.value.entry_points
    \/ /\ item.kind \in {"StoredVersionedContractByHash",
                         "StoredVersionedContractByName"}
       /\ answer.tag = "Success" /\ answer.value.type = "ContractPackage"
       /\ (item.version = 0 \/ item.version \in answer.value.versions)
ItemsResolve(c) ==
    /\ ItemResolves(c.deploy.payment, c.payment_answer)
    /\ ItemResolves(c.deploy.session, c.session_answer)

\* A client's deploy that passes the economic stages.
ClientEconomicsPass(c) ==
    /\ c.source.kind = "Client"
    /\ AccountResolved(c) /\ Authorized(c) /\ BalanceSufficient(c)

NoQueryIssued(c) ==
    c.n_account_query = 0 /\ c.n_balance_query = 0 /\ c.n_contract_query = 0

EconomicKinds ==
    {"NonexistentAccount", "InvalidAssociatedKeys",
     "InsufficientDeploySignatureWeight", "InsufficientBalance", "UnknownBalance"}

TestRun == host = "TestReactor"
ScenarioIs(names) == TestRun /\ test_scenario.name \in names

(***************************************************************************)
(* C1                                                                      *)
(***************************************************************************)

\* C1: a deploy with a bad hash or signature, oversize or with a TTL out of
\* range, from a peer or from a client, is rejected (InvalidDeploy, kind
\* InvalidDeployConfiguration) with no account query, no balance query and
\* no contract or package query issued at any point of its run; this holds
\* in particular of the deploys of the two InvalidDeploy test scenarios,
\* whose callers receive InvalidDeployConfiguration.
C1_InvalidRejectedBeforeAnyQuery ==
    /\ \A s \in Slots :
          LET c == sub[s] IN
          (/\ Submitted(c)
           /\ \/ HasDefect(c.deploy)
              \/ /\ s = AcceptSlot
                 /\ ScenarioIs({"FromPeerInvalidDeploy", "FromClientInvalidDeploy"}))
          => /\ NoQueryIssued(c)
             /\ c.n_put = 0
             /\ c.state \in {"Received", "Rejected"}
             /\ c.state = "Rejected" =>
                   /\ c.n_invalid = 1
                   /\ c.reason.error = "InvalidDeployConfiguration"
                   /\ c.responder => c.result = c.reason
    /\ (ScenarioIs({"FromPeerInvalidDeploy", "FromClientInvalidDeploy"}) /\ pc = "done")
          => test_result.error = "InvalidDeployConfiguration"

\* A peer's invalid deploy has been rejected and announced, and the test
\* has its result.
C1_Witness ==
    /\ ScenarioIs({"FromPeerInvalidDeploy"}) /\ pc = "done"
    /\ HasDefect(sub[AcceptSlot].deploy)
    /\ sub[AcceptSlot].source.kind = "Peer"
    /\ sub[AcceptSlot].state = "Rejected"
    /\ sub[AcceptSlot].n_invalid = 1
    /\ NoQueryIssued(sub[AcceptSlot])

(***************************************************************************)
(* C2                                                                      *)
(***************************************************************************)

\* What C2 promises of a slot: Accepted, Ok to the caller, one
\* AcceptedNewDeploy announcement, and the deploy held by storage.
AcceptedAndStored(c) ==
    /\ c.state = "Accepted"
    /\ c.n_accepted = 1 /\ c.n_invalid = 0
    /\ c.responder => c.result = Ok
    /\ c.deploy \in storage

\* C2 as the specification states it: every structurally valid deploy of
\* a client whose account resolves, whose approvals are authorized and
\* whose main purse holds at least the maximum payment ends Accepted, with
\* Ok to the caller, AcceptedNewDeploy announced and the deploy in storage.
C2_Original ==
    \A s \in Slots :
        LET c == sub[s] IN
        (Terminal(c) /\ PassesStructure(c.deploy) /\ ClientEconomicsPass(c))
        => AcceptedAndStored(c)

\* C2, amended: every structurally valid deploy of a client whose account
\* resolves, whose approvals are authorized, whose main purse holds at least
\* the maximum payment, whose payment and session items resolve and whose
\* hash storage does not hold yet ends Accepted, with Ok to the caller,
\* AcceptedNewDeploy announced and the deploy in storage; the test of
\* FromClientValidDeploy ends with Ok and its storage assertion passed.
C2_ClientValidAccepted ==
    /\ \A s \in Slots :
          LET c == sub[s] IN
          (/\ Terminal(c) /\ PassesStructure(c.deploy) /\ ClientEconomicsPass(c)
           /\ ItemsResolve(c) /\ ~c.stored_before)
          => AcceptedAndStored(c)
    /\ (ScenarioIs({"FromClientValidDeploy"}) /\ Terminal(sub[AcceptSlot]))
          => AcceptedAndStored(sub[AcceptSlot])
    /\ (ScenarioIs({"FromClientValidDeploy"}) /\ pc = "done")
          => test_result = Ok /\ storage_assertion = "passed"

\* The client's valid deploy of the test has been accepted, announced and
\* stored, and the test has its Ok.
C2_Witness ==
    /\ ScenarioIs({"FromClientValidDeploy"}) /\ pc = "done"
    /\ PassesStructure(sub[AcceptSlot].deploy)
    /\ ClientEconomicsPass(sub[AcceptSlot]) /\ ItemsResolve(sub[AcceptSlot])
    /\ AcceptedAndStored(sub[AcceptSlot])
    /\ test_result = Ok

(***************************************************************************)
(* C3                                                                      *)
(***************************************************************************)

\* The deploy passes every stage its source is put through.
PassesPipeline(c) ==
    /\ PassesStructure(c.deploy)
    /\ c.source.kind = "Client" => ClientEconomicsPass(c)
    /\ ItemsResolve(c)

RepeatedScenarios == {"FromPeerRepeatedValidDeploy", "FromClientRepeatedValidDeploy"}

\* What C3 promises of a slot: Ok to the caller, the put answered with
\* is_new = false, and no AcceptedNewDeploy announcement.
DuplicateOutcome(c) ==
    /\ c.state = "DuplicateStored"
    /\ c.n_put = 1 /\ c.n_duplicate = 1
    /\ c.n_accepted = 0 /\ c.n_invalid = 0
    /\ c.responder => c.result = Ok /\ c.n_resolved = 1

\* C3: a valid deploy whose hash storage already holds, submitted again by
\* a peer or a client, ends with Ok to the caller; its storage put is
\* answered by a PutToStorageResult event with is_new = false, and no
\* AcceptedNewDeploy is announced for it.  The two repeated-deploy tests end
\* this way, with Ok.
C3_RepeatedDeployIsDuplicate ==
    /\ \A s \in Slots :
          LET c == sub[s] IN
          /\ (Terminal(c) /\ PassesPipeline(c) /\ c.stored_before)
                => DuplicateOutcome(c)
          /\ (c.state = "Stored" /\ c.stored_before)
                => /\ c.event = PutToStorageResult(FALSE)
                   /\ c.n_accepted = 0
    /\ (ScenarioIs(RepeatedScenarios) /\ Terminal(sub[AcceptSlot]))
          => sub[AcceptSlot].stored_before /\ DuplicateOutcome(sub[AcceptSlot])
    /\ (ScenarioIs(RepeatedScenarios) /\ pc = "done") => test_result = Ok

\* A peer's resubmitted deploy has ended as a duplicate.
C3_Witness ==
    /\ ScenarioIs({"FromPeerRepeatedValidDeploy"}) /\ pc = "done"
    /\ sub[AcceptSlot].stored_before
    /\ PassesPipeline(sub[AcceptSlot])
    /\ DuplicateOutcome(sub[AcceptSlot])
    /\ test_result = Ok

(***************************************************************************)
(* C4                                                                      *)
(***************************************************************************)

\* The three terminal outputs of a submission.
PutOutAccepted(c) == c.n_accepted = 1
PutOutDuplicate(c) == c.n_duplicate = 1 /\ c.n_accepted = 0
PutOutInvalid(c) == c.n_invalid = 1
TerminalOutputs(c) ==
    {o \in {"AcceptedNewDeploy", "StoredDuplicate", "InvalidDeploy"} :
        \/ o = "AcceptedNewDeploy" /\ PutOutAccepted(c)
        \/ o = "StoredDuplicate" /\ PutOutDuplicate(c)
        \/ o = "InvalidDeploy" /\ PutOutInvalid(c)}

InvalidDeployScenarios ==
    {"FromClientInvalidDeploy", "FromClientMissingAccount",
     "FromClientInsufficientBalance", "DeployWithEmptySessionModuleBytes",
     "AccountWithInvalidAssociatedKeys", "AccountWithInsufficientWeight",
     "AccountWithUnknownBalance", "DeployWithNativeTransferInPayment",
     "FromPeerInvalidDeploy"}
ContractScenarioNames ==
    {"DeployWithCustomPaymentContract", "DeployWithSessionContract",
     "DeployWithCustomPaymentContractPackage", "DeployWithSessionContractPackage"}

\* The output the stopping condition of a scenario waits for.
ExpectedOutput(scn) ==
    IF scn.name \in InvalidDeployScenarios THEN "InvalidDeploy"
    ELSE IF scn.name \in ContractScenarioNames
    THEN (IF scn.c = "Valid" THEN "AcceptedNewDeploy" ELSE "InvalidDeploy")
    ELSE IF scn.name \in RepeatedScenarios THEN "StoredDuplicate"
    ELSE "AcceptedNewDeploy"

\* C4: a submission that has reached a terminal state has put out exactly
\* one of an AcceptedNewDeploy announcement, a stored-duplicate event and an
\* InvalidDeploy announcement, never two and never none, and a submission
\* that has not yet reached one has put out none; once the stopping
\* condition of a test has held, the submission is terminal and its one
\* output is the one the scenario waits for.
C4_ExactlyOneTerminalOutput ==
    /\ \A s \in Slots :
          LET c == sub[s] IN
          /\ c.n_accepted <= 1 /\ c.n_invalid <= 1 /\ c.n_duplicate <= 1
          /\ Terminal(c) =>
                /\ Cardinality(TerminalOutputs(c)) = 1
                /\ c.state = "Accepted" <=> PutOutAccepted(c)
                /\ c.state = "DuplicateStored" <=> PutOutDuplicate(c)
                /\ c.state = "Rejected" <=> PutOutInvalid(c)
          /\ (Submitted(c) /\ ~Terminal(c)) =>
                c.n_accepted = 0 /\ c.n_invalid = 0
                   /\ (c.n_duplicate = 1 => c.state = "Stored")
    /\ (TestRun /\ test_scenario # BalanceCheckScenario
          /\ pc \in {"check", "await", "done"})
          => /\ Terminal(sub[AcceptSlot])
             /\ TerminalOutputs(sub[AcceptSlot]) = {ExpectedOutput(test_scenario)}

\* A test has stopped on the stored-duplicate event of its submission.
C4_Witness ==
    /\ ScenarioIs({"FromClientRepeatedValidDeploy"}) /\ pc = "check"
    /\ Terminal(sub[AcceptSlot])
    /\ TerminalOutputs(sub[AcceptSlot]) = {"StoredDuplicate"}

(***************************************************************************)
(* C5                                                                      *)
(***************************************************************************)

\* C5: a submission with a completion handle resolves it exactly once, on
\* reaching its terminal state: with Ok when Accepted or DuplicateStored,
\* with the rejection's error when Rejected; a submission without a handle
\* resolves none.  The tests always supply the handle, and what they await
\* is that one result.
C5_HandleResolvedExactlyOnce ==
    /\ \A s \in Slots :
          LET c == sub[s] IN
          Submitted(c) =>
             /\ c.n_resolved <= 1
             /\ ~c.responder => c.n_resolved = 0 /\ c.result = NoResult
             /\ (c.responder /\ ~Terminal(c)) => c.n_resolved = 0 /\ c.result = NoResult
             /\ (c.responder /\ Terminal(c)) =>
                   /\ c.n_resolved = 1
                   /\ c.state \in {"Accepted", "DuplicateStored"} => c.result = Ok
                   /\ c.state = "Rejected" =>
                         /\ c.result = c.reason
                         /\ c.result.error \in {"InvalidDeployConfiguration",
                                                "InvalidDeployParameters"}
    /\ (TestRun /\ Submitted(sub[AcceptSlot])) => sub[AcceptSlot].responder
    /\ (TestRun /\ pc = "done") =>
          /\ sub[AcceptSlot].n_resolved = 1
          /\ test_result = sub[AcceptSlot].result

\* A node's submission without a handle has been rejected, and nothing was
\* resolved.
C5_Witness ==
    /\ host = "Node"
    /\ ~sub[AcceptSlot].responder
    /\ Settled(sub[AcceptSlot]) /\ sub[AcceptSlot].state = "Rejected"
    /\ sub[AcceptSlot].n_resolved = 0

(***************************************************************************)
(* C6                                                                      *)
(***************************************************************************)

\* No stage the source is put through has failed the deploy.
NoStageFailed(c) ==
    /\ c.deploy.defect = "none"
    /\ c.deploy.payment.kind # "Transfer"
    /\ c.source.kind = "Client" =>
          /\ ~(c.deploy.session.kind = "ModuleBytes" /\ c.deploy.session.len = 0)
          /\ ClientEconomicsPass(c)
    /\ ItemsResolve(c)

\* C6: a deploy that fails at any stage does not end in success but is
\* rejected, and every rejection puts out one InvalidDeploy announcement
\* whose source is the Source the Accept event carried, the same peer
\* included, and resolves the caller's handle, if there is one, with the
\* error of that rejection.  In the tests the announcement of a client's
\* deploy carries Source::Client and that of a peer's deploy Source::Peer.
C6_FailureAnnouncedWithSource ==
    /\ \A s \in Slots :
          LET c == sub[s] IN
          /\ c.state \in {"Accepted", "DuplicateStored"} => NoStageFailed(c)
          /\ c.state = "Rejected" =>
                /\ c.n_invalid = 1
                /\ c.announced_source = c.source
                /\ c.reason.error \in {"InvalidDeployConfiguration",
                                       "InvalidDeployParameters"}
                /\ c.responder => c.result = c.reason /\ c.n_resolved = 1
          /\ c.announcement = "InvalidDeploy" => c.state = "Rejected"
    /\ \A s \in Slots :
          (TestRun /\ sub[s].n_invalid = 1) =>
             sub[s].announced_source.kind =
                (IF test_scenario.name \in {"FromPeerInvalidDeploy",
                                            "BalanceCheckForDeploySentByPeer"}
                 THEN "Peer" ELSE "Client")

\* A peer's deploy has been rejected, and the announcement names that peer.
C6_Witness ==
    /\ ScenarioIs({"FromPeerInvalidDeploy"})
    /\ Settled(sub[AcceptSlot]) /\ sub[AcceptSlot].state = "Rejected"
    /\ sub[AcceptSlot].source = PeerSource("n2")
    /\ sub[AcceptSlot].announced_source = PeerSource("n2")
    /\ sub[AcceptSlot].result = InvalidDeployConfiguration("hash")

(***************************************************************************)
(* C7                                                                      *)
(***************************************************************************)

\* C7: a rejected submission has issued no storage put, and if storage did
\* not hold the deploy's hash before it, storage does not hold it after; a
\* test whose scenario is not a valid-deploy case finds its deploy absent
\* from storage, so that the storage assertion of no test fails.
C7_RejectedNeverStored ==
    /\ \A s \in Slots :
          LET c == sub[s] IN
          c.state = "Rejected" =>
             /\ c.n_put = 0
             /\ ~c.stored_before => ~get_deploy_by_hash(storage, c.deploy.id)
    /\ TestRun => storage_assertion # "failed"
    /\ (TestRun /\ pc \in {"await", "done"}) =>
          /\ storage_assertion = "passed"
          /\ sub[AcceptSlot].state = "Rejected" =>
                ~get_deploy_by_hash(storage, sub[AcceptSlot].deploy.id)

\* The rejected deploy of a test has been looked up in storage and was not
\* there.
C7_Witness ==
    /\ ScenarioIs({"FromClientInsufficientBalance"}) /\ pc = "await"
    /\ sub[AcceptSlot].state = "Rejected" /\ ~sub[AcceptSlot].stored_before
    /\ ~get_deploy_by_hash(storage, sub[AcceptSlot].deploy.id)
    /\ storage_assertion = "passed"

(***************************************************************************)
(* C8                                                                      *)
(***************************************************************************)

AccountAnswered(c) == c.account_answer # NoAnswer

\* What C8 promises of a slot: rejected with NonexistentAccount, and
\* nothing of the later stages.
RejectedAtAccountStage(c) ==
    /\ c.state = "Rejected"
    /\ c.reason = InvalidDeployParameters("NonexistentAccount")
    /\ c.n_invalid = 1
    /\ c.responder => c.result = InvalidDeployParameters("NonexistentAccount")
    /\ c.n_balance_query = 0 /\ c.n_contract_query = 0 /\ c.n_put = 0
    /\ c.balance_answer = NoAnswer
    /\ c.payment_answer = NoAnswer /\ c.session_answer = NoAnswer

\* C8: a client's deploy whose account lookup finds no account is rejected
\* with exactly NonexistentAccount, with no authorization failure reported,
\* no balance query, no contract or package lookup and no storage put; the
\* test of FromClientMissingAccount, whose every query is answered
\* ValueNotFound, ends with that error.
C8_ClientMissingAccountRejected ==
    /\ \A s \in Slots :
          LET c == sub[s] IN
          (Submitted(c) /\ c.source.kind = "Client"
             /\ AccountAnswered(c) /\ ~AccountResolved(c))
          => RejectedAtAccountStage(c)
    /\ (ScenarioIs({"FromClientMissingAccount"}) /\ AccountAnswered(sub[AcceptSlot]))
          => /\ ~AccountResolved(sub[AcceptSlot])
             /\ RejectedAtAccountStage(sub[AcceptSlot])
    /\ (ScenarioIs({"FromClientMissingAccount"}) /\ pc = "done")
          => test_result = InvalidDeployParameters("NonexistentAccount")

\* The test of the missing account has ended with NonexistentAccount.
C8_Witness ==
    /\ ScenarioIs({"FromClientMissingAccount"}) /\ pc = "done"
    /\ sub[AcceptSlot].source.kind = "Client"
    /\ AccountMissing(sub[AcceptSlot])
    /\ RejectedAtAccountStage(sub[AcceptSlot])
    /\ test_result = InvalidDeployParameters("NonexistentAccount")

(***************************************************************************)
(* C9                                                                      *)
(***************************************************************************)

\* The states from the Contract/Package Resolver on, and where they end.
FromContractResolverOn ==
    {"AccountResolved", "AccountSkippedForPeer", "ContractsResolved", "Stored",
     "Accepted", "DuplicateStored", "Rejected"}

\* C9: a peer's deploy whose account lookup finds no account is not
\* rejected at the account stage: it goes on to the Contract/Package
\* Resolver with no authorization check and no balance query, is never
\* rejected for an economic reason, and is accepted when its items resolve.
\* No peer's deploy, whatever its account lookup finds, has a balance query
\* issued; the peer's valid deploy of the test is accepted without one.
C9_PeerMissingAccountProceeds ==
    /\ \A s \in Slots :
          LET c == sub[s] IN
          (Submitted(c) /\ c.source.kind = "Peer" /\ AccountAnswered(c)) =>
             /\ c.n_balance_query = 0 /\ c.balance_answer = NoAnswer
             /\ c.state \in FromContractResolverOn
             /\ c.state = "Rejected" =>
                   /\ c.reason.failure \notin EconomicKinds
                   /\ ~ItemsResolve(c)
             /\ (Terminal(c) /\ ~AccountResolved(c) /\ ItemsResolve(c)) =>
                   c.state \in {"Accepted", "DuplicateStored"}
    /\ (ScenarioIs({"FromPeerValidDeploy"}) /\ Submitted(sub[AcceptSlot])) =>
          /\ sub[AcceptSlot].source.kind = "Peer"
          /\ sub[AcceptSlot].n_balance_query = 0
          /\ Terminal(sub[AcceptSlot]) => sub[AcceptSlot].state = "Accepted"

\* A peer's deploy whose account was not found has been accepted.
C9_Witness ==
    /\ sub[AcceptSlot].source.kind = "Peer"
    /\ AccountMissing(sub[AcceptSlot])
    /\ Settled(sub[AcceptSlot]) /\ sub[AcceptSlot].state = "Accepted"
    /\ sub[AcceptSlot].n_balance_query = 0
    /\ sub[AcceptSlot].n_contract_query > 0

(***************************************************************************)
(* C10                                                                     *)
(***************************************************************************)

\* What C10 promises of a balance below the maximum payment.
RejectedForBalance(c) ==
    /\ c.state = "Rejected"
    /\ c.reason = InvalidDeployParameters("InsufficientBalance")
    /\ c.responder => c.result = InvalidDeployParameters("InsufficientBalance")
    /\ c.n_contract_query = 0 /\ c.n_put = 0

\* C10: the balance comparison is inclusive.  A client's deploy whose main
\* purse holds exactly the maximum payment, or more, passes the balance
\* stage, and is accepted when its items resolve and storage does not hold
\* it yet; one whose purse holds the maximum payment less one, or any
\* smaller amount, is rejected with InsufficientBalance.  The test reactor
\* answers the maximum payment less one in FromClientInsufficientBalance,
\* which ends with InsufficientBalance, and exactly the maximum payment
\* otherwise, with which FromClientValidDeploy is accepted.
C10_BalanceComparisonInclusive ==
    /\ \A s \in Slots :
          LET c == sub[s] IN
          (Submitted(c) /\ c.source.kind = "Client" /\ BalanceKnown(c)) =>
             /\ c.balance_answer.motes < MAX_PAYMENT_AMOUNT => RejectedForBalance(c)
             /\ c.balance_answer.motes >= MAX_PAYMENT_AMOUNT =>
                   /\ c.state \in {"BalanceChecked", "ContractsResolved", "Stored",
                                   "Accepted", "DuplicateStored", "Rejected"}
                   /\ c.state = "Rejected" =>
                         c.reason.failure \notin EconomicKinds /\ ~ItemsResolve(c)
                   /\ (Terminal(c) /\ ItemsResolve(c) /\ ~c.stored_before) =>
                         c.state = "Accepted"
    /\ (TestRun /\ BalanceKnown(sub[AcceptSlot])) =>
          sub[AcceptSlot].balance_answer.motes =
             (IF test_scenario.name = "FromClientInsufficientBalance"
              THEN MAX_PAYMENT_AMOUNT - 1 ELSE MAX_PAYMENT_AMOUNT)
    /\ (ScenarioIs({"FromClientInsufficientBalance"}) /\ pc = "done") =>
          test_result = InvalidDeployParameters("InsufficientBalance")
    /\ (ScenarioIs({"FromClientValidDeploy"}) /\ Terminal(sub[AcceptSlot])) =>
          sub[AcceptSlot].state = "Accepted"

\* A client's deploy whose purse holds exactly the maximum payment has been
\* accepted.
C10_Witness ==
    /\ sub[AcceptSlot].source.kind = "Client"
    /\ BalanceKnown(sub[AcceptSlot])
    /\ sub[AcceptSlot].balance_answer.motes = MAX_PAYMENT_AMOUNT
    /\ Settled(sub[AcceptSlot]) /\ sub[AcceptSlot].state = "Accepted"

(***************************************************************************)
(* C11                                                                     *)
(***************************************************************************)

\* What C11 promises of a slot: rejected with UnknownBalance and nothing
\* else, and nothing of the later stages.
RejectedForUnknownBalance(c) ==
    /\ c.state = "Rejected"
    /\ c.reason = InvalidDeployParameters("UnknownBalance")
    /\ c.reason.failure \notin {"NonexistentAccount", "InsufficientBalance"}
    /\ c.n_invalid = 1
    /\ c.responder => c.result = InvalidDeployParameters("UnknownBalance")
    /\ c.n_contract_query = 0 /\ c.n_put = 0

\* C11: a client's deploy whose purse-balance query is answered RootNotFound
\* is rejected with UnknownBalance, a kind other than NonexistentAccount and
\* InsufficientBalance; the test reactor answers RootNotFound in
\* AccountWithUnknownBalance and in no other scenario, and that test ends
\* with UnknownBalance.
C11_RootNotFoundIsUnknownBalance ==
    /\ \A s \in Slots :
          LET c == sub[s] IN
          /\ (Submitted(c) /\ c.source.kind = "Client"
                /\ c.balance_answer.tag = "RootNotFound")
                => RejectedForUnknownBalance(c)
          /\ (c.state = "Rejected" /\ c.reason.failure = "UnknownBalance")
                => AccountResolved(c) /\ c.balance_answer.tag = "RootNotFound"
    /\ (TestRun /\ sub[AcceptSlot].balance_answer # NoAnswer) =>
          (sub[AcceptSlot].balance_answer.tag = "RootNotFound"
              <=> test_scenario.name = "AccountWithUnknownBalance")
    /\ (ScenarioIs({"AccountWithUnknownBalance"}) /\ Terminal(sub[AcceptSlot])) =>
          RejectedForUnknownBalance(sub[AcceptSlot])
    /\ (ScenarioIs({"AccountWithUnknownBalance"}) /\ pc = "done") =>
          test_result = InvalidDeployParameters("UnknownBalance")

\* The test of the unknown balance has ended with UnknownBalance.
C11_Witness ==
    /\ ScenarioIs({"AccountWithUnknownBalance"}) /\ pc = "done"
    /\ sub[AcceptSlot].source.kind = "Client"
    /\ sub[AcceptSlot].balance_answer = RootNotFound
    /\ RejectedForUnknownBalance(sub[AcceptSlot])
    /\ test_result = InvalidDeployParameters("UnknownBalance")

(***************************************************************************)
(* C12                                                                     *)
(***************************************************************************)

AssociatedKeys(c) == c.account_answer.value.associated_keys
SignersAreAssociated(c) == c.deploy.approvals \subseteq DOMAIN AssociatedKeys(c)
\* The weights of those signers that are associated keys, summed.
SignersWeight(c) ==
    WeightSum(AssociatedKeys(c), c.deploy.approvals \cap DOMAIN AssociatedKeys(c))
WeightBelowThreshold(c) == SignersWeight(c) < c.account_answer.value.deployment

\* What C12 promises of a slot: rejected for the weight, with the balance
\* service never asked.
RejectedForWeight(c) ==
    /\ c.state = "Rejected"
    /\ c.reason = InvalidDeployParameters("InsufficientDeploySignatureWeight")
    /\ c.reason.failure \notin {"InsufficientBalance", "UnknownBalance"}
    /\ c.n_invalid = 1
    /\ c.responder =>
          c.result = InvalidDeployParameters("InsufficientDeploySignatureWeight")
    /\ c.n_balance_query = 0 /\ c.balance_answer = NoAnswer
    /\ c.n_contract_query = 0 /\ c.n_put = 0

\* C12: a client's deploy whose account resolves with every signer among
\* its associated keys, but with the signers' weights summing below the
\* deployment threshold, is rejected with exactly
\* InsufficientDeploySignatureWeight; no balance query is issued for it, so
\* that no answer of the balance service can make the kind
\* InsufficientBalance or UnknownBalance.  The account the test reactor
\* builds in AccountWithInsufficientWeight is such an account, and that test
\* ends with InsufficientDeploySignatureWeight.
C12_WeightBelowThresholdRejected ==
    /\ \A s \in Slots :
          LET c == sub[s] IN
          (Submitted(c) /\ c.source.kind = "Client" /\ AccountResolved(c)
             /\ SignersAreAssociated(c) /\ WeightBelowThreshold(c))
          => RejectedForWeight(c)
    /\ (ScenarioIs({"AccountWithInsufficientWeight"})
          /\ AccountAnswered(sub[AcceptSlot])) =>
          /\ AccountResolved(sub[AcceptSlot])
          /\ SignersAreAssociated(sub[AcceptSlot])
          /\ WeightBelowThreshold(sub[AcceptSlot])
          /\ RejectedForWeight(sub[AcceptSlot])
    /\ (ScenarioIs({"AccountWithInsufficientWeight"}) /\ pc = "done") =>
          test_result = InvalidDeployParameters("InsufficientDeploySignatureWeight")

\* The test of the insufficient weight has ended with
\* InsufficientDeploySignatureWeight.
C12_Witness ==
    /\ ScenarioIs({"AccountWithInsufficientWeight"}) /\ pc = "done"
    /\ SignersAreAssociated(sub[AcceptSlot])
    /\ WeightBelowThreshold(sub[AcceptSlot])
    /\ RejectedForWeight(sub[AcceptSlot])
    /\ test_result = InvalidDeployParameters("InsufficientDeploySignatureWeight")

(***************************************************************************)
(* C13                                                                     *)
(***************************************************************************)

\* What C13 promises of a slot: rejected for its associated keys, with
\* nothing of the later stages.
RejectedForAssociatedKeys(c) ==
    /\ c.state = "Rejected"
    /\ c.reason = InvalidDeployParameters("InvalidAssociatedKeys")
    /\ c.n_invalid = 1
    /\ c.responder => c.result = InvalidDeployParameters("InvalidAssociatedKeys")
    /\ c.n_balance_query = 0 /\ c.balance_answer = NoAnswer
    /\ c.n_contract_query = 0 /\ c.n_put = 0

\* C13: a client's deploy whose account resolves to an associated-key set
\* that lacks one of the deploy's signers is rejected with
\* InvalidAssociatedKeys, also when the weight of its signers is below the
\* deployment threshold: the keys are decided first.  The account the test
\* reactor builds in AccountWithInvalidAssociatedKeys lacks the signer and
\* leaves the weight below the threshold, and that test ends with
\* InvalidAssociatedKeys.
C13_InvalidAssociatedKeysFirst ==
    /\ \A s \in Slots :
          LET c == sub[s] IN
          /\ (Submitted(c) /\ c.source.kind = "Client" /\ AccountResolved(c)
                /\ ~SignersAreAssociated(c))
                => RejectedForAssociatedKeys(c)
          /\ (c.state = "Rejected"
                /\ c.reason.failure = "InsufficientDeploySignatureWeight")
                => SignersAreAssociated(c)
    /\ (ScenarioIs({"AccountWithInvalidAssociatedKeys"})
          /\ AccountAnswered(sub[AcceptSlot])) =>
          /\ AccountResolved(sub[AcceptSlot])
          /\ ~SignersAreAssociated(sub[AcceptSlot])
          /\ WeightBelowThreshold(sub[AcceptSlot])
          /\ RejectedForAssociatedKeys(sub[AcceptSlot])
    /\ (ScenarioIs({"AccountWithInvalidAssociatedKeys"}) /\ pc = "done") =>
          test_result = InvalidDeployParameters("InvalidAssociatedKeys")

\* A deploy that fails both checks has been rejected for its keys.
C13_Witness ==
    /\ ScenarioIs({"AccountWithInvalidAssociatedKeys"}) /\ pc = "done"
    /\ ~SignersAreAssociated(sub[AcceptSlot])
    /\ WeightBelowThreshold(sub[AcceptSlot])
    /\ RejectedForAssociatedKeys(sub[AcceptSlot])
    /\ test_result = InvalidDeployParameters("InvalidAssociatedKeys")

(***************************************************************************)
(* C14                                                                     *)
(***************************************************************************)

\* Nothing has been put out for the slot: no announcement, no result.
NothingPutOut(c) ==
    /\ c.n_invalid = 0 /\ c.n_accepted = 0 /\ c.n_duplicate = 0
    /\ c.announcement = "None" /\ c.announced_source = NoSource
    /\ c.n_resolved = 0 /\ c.result = NoResult
    /\ c.n_put = 0

\* C14: a GetBalanceResult event delivered for a peer's deploy makes the
\* handler panic: the slot is not Rejected, no InvalidDeploy is announced
\* and nothing is given to the caller.  The event the test injects in
\* BalanceCheckForDeploySentByPeer is for a peer's deploy; its dispatch
\* panics, so that the test neither submits the deploy nor gets a result.
C14_PeerBalanceResultPanics ==
    /\ \A s \in Slots :
          LET c == sub[s] IN
          /\ c.state = "Panicked" =>
                /\ panicked
                /\ c.source.kind = "Peer"
                /\ NothingPutOut(c)
          /\ (c.source.kind = "Peer" /\ c.state \notin {"Idle", "Panicked"}) =>
                c.balance_answer = NoAnswer /\ c.n_balance_query = 0
          /\ (c.source.kind = "Peer" /\ c.event.type = "GetBalanceResult") =>
                c.state = "Injected" /\ NothingPutOut(c)
    /\ TestRun =>
          /\ sub[InjectSlot].state # "Idle" =>
                /\ test_scenario = BalanceCheckScenario
                /\ sub[InjectSlot].source.kind = "Peer"
                /\ sub[InjectSlot].state \in {"Injected", "Panicked"}
          /\ panicked <=> sub[InjectSlot].state = "Panicked"
    /\ ScenarioIs({"BalanceCheckForDeploySentByPeer"}) =>
          /\ pc \in {"start", "crank_injected", "injected_done"}
          /\ pc = "injected_done" => panicked
          /\ sub[AcceptSlot].state = "Idle"
          /\ test_result = NoResult

\* The injected balance result of a peer's deploy has been dispatched, and
\* the reactor has panicked with nothing put out.
C14_Witness ==
    /\ ScenarioIs({"BalanceCheckForDeploySentByPeer"})
    /\ panicked
    /\ sub[InjectSlot].state = "Panicked"
    /\ sub[InjectSlot].source.kind = "Peer"
    /\ NothingPutOut(sub[InjectSlot])
    /\ test_result = NoResult

(***************************************************************************)
(* C15 to C18: the kinds of the Contract/Package Resolver                  *)
(***************************************************************************)

ItemNames == {"payment", "session"}
ItemOf(c, w) == IF w = "payment" THEN c.deploy.payment ELSE c.deploy.session
AnswerOf(c, w) == IF w = "payment" THEN c.payment_answer ELSE c.session_answer
\* The lookup of the item has been answered.
ItemAnswered(c, w) == Submitted(c) /\ AnswerOf(c, w) # NoAnswer
NotFound(answer) == answer.tag = "ValueNotFound"
ContractFound(answer) == answer.tag = "Success" /\ answer.value.type = "Contract"
PackageFound(answer) ==
    answer.tag = "Success" /\ answer.value.type = "ContractPackage"

\* Rejected with the parameter failure `kind`, announced, given to the
\* caller, and not stored.
RejectedWith(c, kind) ==
    /\ c.state = "Rejected"
    /\ c.reason = InvalidDeployParameters(kind)
    /\ c.n_invalid = 1
    /\ c.responder => c.result = InvalidDeployParameters(kind)
    /\ c.n_put = 0

\* The item references a contract that exists but lacks the entry point.
LacksEntryPoint(c, w) ==
    /\ ItemOf(c, w).kind \in ContractKinds
    /\ ContractFound(AnswerOf(c, w))
    /\ ItemOf(c, w).entry_point \notin AnswerOf(c, w).value.entry_points

\* C15: a deploy whose payment or session item references a stored contract
\* that exists but lacks the named entry point is rejected with
\* NonexistentContractEntryPoint, not with NonexistentContractAtHash or
\* NonexistentContractAtName; a contract that is not found is rejected with
\* one of those two, and NonexistentContractEntryPoint is reported only for
\* a contract that was found.  The two MissingEntryPoint tests, whose
\* contract the test reactor does hold, end with
\* NonexistentContractEntryPoint.
C15_MissingEntryPointKind ==
    /\ \A s \in Slots : \A w \in ItemNames :
          LET c == sub[s] IN
          ItemAnswered(c, w) =>
             /\ LacksEntryPoint(c, w) =>
                   RejectedWith(c, "NonexistentContractEntryPoint")
             /\ (ItemOf(c, w).kind \in ContractKinds /\ ~ContractFound(AnswerOf(c, w)))
                   => /\ c.state = "Rejected"
                      /\ c.reason.failure \in {"NonexistentContractAtHash",
                                               "NonexistentContractAtName"}
    /\ \A s \in Slots :
          (sub[s].state = "Rejected"
             /\ sub[s].reason.failure = "NonexistentContractEntryPoint")
          => \E w \in ItemNames : ItemAnswered(sub[s], w) /\ LacksEntryPoint(sub[s], w)
    /\ (ScenarioIs({"DeployWithCustomPaymentContract", "DeployWithSessionContract"})
          /\ test_scenario.c = "MissingEntryPoint") =>
          /\ Terminal(sub[AcceptSlot]) =>
                /\ RejectedWith(sub[AcceptSlot], "NonexistentContractEntryPoint")
                /\ \E w \in ItemNames : LacksEntryPoint(sub[AcceptSlot], w)
          /\ pc = "done" =>
                test_result = InvalidDeployParameters("NonexistentContractEntryPoint")

\* The test of the missing entry point of a session contract has ended with
\* NonexistentContractEntryPoint.
C15_Witness ==
    /\ ScenarioIs({"DeployWithSessionContract"})
    /\ test_scenario.c = "MissingEntryPoint" /\ pc = "done"
    /\ LacksEntryPoint(sub[AcceptSlot], "session")
    /\ RejectedWith(sub[AcceptSlot], "NonexistentContractEntryPoint")
    /\ test_result = InvalidDeployParameters("NonexistentContractEntryPoint")

\* The kind C16 names for a contract reference of this shape.
MissingContractKind(item) ==
    IF item.kind = "StoredContractByHash" THEN "NonexistentContractAtHash"
    ELSE "NonexistentContractAtName"

\* The item references a contract and its lookup answered not-found.
ContractNotFound(c, w) ==
    ItemOf(c, w).kind \in ContractKinds /\ NotFound(AnswerOf(c, w))

\* C16: a deploy whose payment or session item references a stored contract
\* whose lookup answers not-found is rejected with NonexistentContractAtHash
\* when the reference is by hash and with NonexistentContractAtName when it
\* is by name, and each of the two kinds is reported only for a reference
\* of its own shape.  The tests of a missing contract by name and by hash,
\* in payment and in session, end with the kind of their reference.
C16_MissingContractKindFollowsShape ==
    /\ \A s \in Slots : \A w \in ItemNames :
          LET c == sub[s] IN
          (ItemAnswered(c, w) /\ ContractNotFound(c, w)) =>
             /\ ItemOf(c, w).kind = "StoredContractByHash" =>
                   RejectedWith(c, "NonexistentContractAtHash")
             /\ ItemOf(c, w).kind = "StoredContractByName" =>
                   RejectedWith(c, "NonexistentContractAtName")
    /\ \A s \in Slots :
          LET c == sub[s] IN
          /\ (c.state = "Rejected" /\ c.reason.failure = "NonexistentContractAtHash")
                => \E w \in ItemNames :
                      /\ ItemAnswered(c, w) /\ ~ContractFound(AnswerOf(c, w))
                      /\ ItemOf(c, w).kind = "StoredContractByHash"
          /\ (c.state = "Rejected" /\ c.reason.failure = "NonexistentContractAtName")
                => \E w \in ItemNames :
                      /\ ItemAnswered(c, w) /\ ~ContractFound(AnswerOf(c, w))
                      /\ ItemOf(c, w).kind = "StoredContractByName"
    /\ (ScenarioIs({"DeployWithCustomPaymentContract", "DeployWithSessionContract"})
          /\ test_scenario.c \in {"MissingContractAtHash", "MissingContractAtName"}) =>
          LET kind == IF test_scenario.c = "MissingContractAtHash"
                      THEN "NonexistentContractAtHash"
                      ELSE "NonexistentContractAtName" IN
          /\ Terminal(sub[AcceptSlot]) =>
                /\ RejectedWith(sub[AcceptSlot], kind)
                /\ \E w \in ItemNames :
                      /\ ContractNotFound(sub[AcceptSlot], w)
                      /\ MissingContractKind(ItemOf(sub[AcceptSlot], w)) = kind
          /\ pc = "done" => test_result = InvalidDeployParameters(kind)

\* The test of the payment contract missing at its hash has ended with
\* NonexistentContractAtHash.
C16_Witness ==
    /\ ScenarioIs({"DeployWithCustomPaymentContract"})
    /\ test_scenario.c = "MissingContractAtHash" /\ pc = "done"
    /\ sub[AcceptSlot].deploy.payment.kind = "StoredContractByHash"
    /\ ContractNotFound(sub[AcceptSlot], "payment")
    /\ RejectedWith(sub[AcceptSlot], "NonexistentContractAtHash")
    /\ test_result = InvalidDeployParameters("NonexistentContractAtHash")

\* The item references a package and its lookup answered not-found.
PackageNotFound(c, w) ==
    ItemOf(c, w).kind \in PackageKinds /\ NotFound(AnswerOf(c, w))

\* C17: a deploy whose payment or session item references a contract
\* package whose lookup answers not-found is rejected with
\* NonexistentContractPackageAtHash when the reference is by hash and with
\* NonexistentContractPackageAtName when it is by name.  The tests of a
\* missing package at name and at hash, in payment and in session, end with
\* the kind of their reference.
C17_MissingPackageKindFollowsShape ==
    /\ \A s \in Slots : \A w \in ItemNames :
          LET c == sub[s] IN
          (ItemAnswered(c, w) /\ PackageNotFound(c, w)) =>
             /\ ItemOf(c, w).kind = "StoredVersionedContractByHash" =>
                   RejectedWith(c, "NonexistentContractPackageAtHash")
             /\ ItemOf(c, w).kind = "StoredVersionedContractByName" =>
                   RejectedWith(c, "NonexistentContractPackageAtName")
    /\ \A s \in Slots :
          LET c == sub[s] IN
          (c.state = "Rejected"
             /\ c.reason.failure \in {"NonexistentContractPackageAtHash",
                                      "NonexistentContractPackageAtName"})
          => \E w \in ItemNames :
                /\ ItemAnswered(c, w) /\ ~PackageFound(AnswerOf(c, w))
                /\ ItemOf(c, w).kind =
                      (IF c.reason.failure = "NonexistentContractPackageAtHash"
                       THEN "StoredVersionedContractByHash"
                       ELSE "StoredVersionedContractByName")
    /\ (ScenarioIs({"DeployWithCustomPaymentContractPackage",
                    "DeployWithSessionContractPackage"})
          /\ test_scenario.c \in {"MissingPackageAtHash", "MissingPackageAtName"}) =>
          LET kind == IF test_scenario.c = "MissingPackageAtHash"
                      THEN "NonexistentContractPackageAtHash"
                      ELSE "NonexistentContractPackageAtName" IN
          /\ Terminal(sub[AcceptSlot]) =>
                /\ RejectedWith(sub[AcceptSlot], kind)
                /\ \E w \in ItemNames : PackageNotFound(sub[AcceptSlot], w)
          /\ pc = "done" => test_result = InvalidDeployParameters(kind)

\* The test of the session package missing at its name has ended with
\* NonexistentContractPackageAtName.
C17_Witness ==
    /\ ScenarioIs({"DeployWithSessionContractPackage"})
    /\ test_scenario.c = "MissingPackageAtName" /\ pc = "done"
    /\ sub[AcceptSlot].deploy.session.kind = "StoredVersionedContractByName"
    /\ PackageNotFound(sub[AcceptSlot], "session")
    /\ RejectedWith(sub[AcceptSlot], "NonexistentContractPackageAtName")
    /\ test_result = InvalidDeployParameters("NonexistentContractPackageAtName")

\* The item references a package that exists and names a version the
\* package does not hold enabled.
VersionAbsent(c, w) ==
    /\ ItemOf(c, w).kind \in PackageKinds
    /\ PackageFound(AnswerOf(c, w))
    /\ ItemOf(c, w).version # 0
    /\ ItemOf(c, w).version \notin AnswerOf(c, w).value.versions
\* The item references a package that exists and names no version.
NoVersionNamed(c, w) ==
    /\ ItemOf(c, w).kind \in PackageKinds
    /\ PackageFound(AnswerOf(c, w))
    /\ ItemOf(c, w).version = 0

\* C18: a deploy whose payment item or session item references a contract
\* package that exists and names a version the package does not hold
\* enabled is rejected with InvalidContractAtVersion, for the session item
\* as for the payment item; InvalidContractAtVersion is reported for no
\* other cause, so that an item that names no version is not rejected by
\* the version check, and a deploy whose items all resolve that way is not
\* rejected at all.  The MissingContractVersion scenarios of the payment
\* package and of the session package end with InvalidContractAtVersion.
C18_AbsentVersionRejected ==
    /\ \A s \in Slots : \A w \in ItemNames :
          LET c == sub[s] IN
          ItemAnswered(c, w) =>
             /\ VersionAbsent(c, w) => RejectedWith(c, "InvalidContractAtVersion")
             /\ (NoVersionNamed(c, w) /\ c.state = "Rejected") =>
                   /\ w = "payment"
                   /\ ItemAnswered(c, "session")
                   /\ ~ItemResolves(c.deploy.session, c.session_answer)
    /\ \A s \in Slots :
          (sub[s].state = "Rejected"
             /\ sub[s].reason.failure = "InvalidContractAtVersion")
          => \E w \in ItemNames : ItemAnswered(sub[s], w) /\ VersionAbsent(sub[s], w)
    /\ (ScenarioIs({"DeployWithCustomPaymentContractPackage",
                    "DeployWithSessionContractPackage"})
          /\ test_scenario.c = "MissingContractVersion") =>
          LET w == IF test_scenario.name = "DeployWithSessionContractPackage"
                   THEN "session" ELSE "payment" IN
          /\ Terminal(sub[AcceptSlot]) =>
                /\ VersionAbsent(sub[AcceptSlot], w)
                /\ RejectedWith(sub[AcceptSlot], "InvalidContractAtVersion")
          /\ pc = "done" =>
                test_result = InvalidDeployParameters("InvalidContractAtVersion")
    /\ (ScenarioIs({"DeployWithCustomPaymentContractPackage",
                    "DeployWithSessionContractPackage"})
          /\ test_scenario.c = "Valid" /\ Terminal(sub[AcceptSlot])) =>
          /\ \E w \in ItemNames : NoVersionNamed(sub[AcceptSlot], w)
          /\ sub[AcceptSlot].state = "Accepted"

\* The session package's scenario of the absent version has ended with
\* InvalidContractAtVersion.
C18_Witness ==
    /\ ScenarioIs({"DeployWithSessionContractPackage"})
    /\ test_scenario.c = "MissingContractVersion" /\ pc = "done"
    /\ VersionAbsent(sub[AcceptSlot], "session")
    /\ RejectedWith(sub[AcceptSlot], "InvalidContractAtVersion")
    /\ test_result = InvalidDeployParameters("InvalidContractAtVersion")

(***************************************************************************)
(* C19                                                                     *)
(***************************************************************************)

\* Rejected and announced, with nothing stored by the submission.
RejectedAndNotStored(c) ==
    /\ c.state = "Rejected"
    /\ c.n_invalid = 1 /\ c.n_accepted = 0
    /\ c.announced_source = c.source
    /\ c.n_put = 0
    /\ ~c.stored_before => ~get_deploy_by_hash(storage, c.deploy.id)

PaysByTransfer(d) == d.payment.kind = "Transfer"

\* C19: a deploy whose payment item is a native transfer never gets as far
\* as a storage put and always ends rejected, with InvalidDeploy announced
\* and nothing stored; the kind is InvalidPaymentVariant whenever its hash,
\* signatures, size and TTL are in order, whoever sent it and whatever its
\* account and balance are.  The deploy of DeployWithNativeTransferInPayment
\* differs from the valid deploy of the other tests in its payment item
\* alone, and its test ends with InvalidPaymentVariant.
C19_TransferInPaymentRejected ==
    /\ \A s \in Slots :
          LET c == sub[s] IN
          (Submitted(c) /\ PaysByTransfer(c.deploy)) =>
             /\ c.state \notin {"ContractsResolved", "Stored", "Accepted",
                                "DuplicateStored"}
             /\ c.n_put = 0 /\ c.n_accepted = 0
             /\ Terminal(c) =>
                   /\ RejectedAndNotStored(c)
                   /\ ~HasDefect(c.deploy) => RejectedWith(c, "InvalidPaymentVariant")
    /\ \A s \in Slots :
          (sub[s].state = "Rejected"
             /\ sub[s].reason.failure = "InvalidPaymentVariant")
          => PaysByTransfer(sub[s].deploy)
    /\ (ScenarioIs({"DeployWithNativeTransferInPayment"})
          /\ Submitted(sub[AcceptSlot])) =>
          /\ sub[AcceptSlot].deploy =
                [random_valid_native_transfer(1) EXCEPT !.payment = Transfer]
          /\ Terminal(sub[AcceptSlot]) =>
                /\ RejectedAndNotStored(sub[AcceptSlot])
                /\ RejectedWith(sub[AcceptSlot], "InvalidPaymentVariant")
          /\ pc = "done" =>
                /\ test_result = InvalidDeployParameters("InvalidPaymentVariant")
                /\ storage_assertion = "passed"

\* The test of the transfer in payment has ended with
\* InvalidPaymentVariant, and its deploy is not in storage.
C19_Witness ==
    /\ ScenarioIs({"DeployWithNativeTransferInPayment"}) /\ pc = "done"
    /\ PaysByTransfer(sub[AcceptSlot].deploy)
    /\ ~HasDefect(sub[AcceptSlot].deploy)
    /\ RejectedAndNotStored(sub[AcceptSlot])
    /\ RejectedWith(sub[AcceptSlot], "InvalidPaymentVariant")
    /\ storage = {}

(***************************************************************************)
(* C20                                                                     *)
(***************************************************************************)

EmptySession(d) == d.session.kind = "ModuleBytes" /\ d.session.len = 0

\* C20: a client's deploy whose session item is module bytes of length
\* zero never gets as far as a storage put and always ends rejected, with
\* InvalidDeploy announced with Source::Client and nothing stored; the kind
\* is MissingModuleBytes whenever its hash, signatures, size, TTL and
\* payment item are in order, whatever its account and balance are.  The
\* deploy of DeployWithEmptySessionModuleBytes differs from the valid deploy
\* of the other tests in its session item alone, and its test ends with
\* MissingModuleBytes.
C20_ClientEmptySessionRejected ==
    /\ \A s \in Slots :
          LET c == sub[s] IN
          (Submitted(c) /\ c.source.kind = "Client" /\ EmptySession(c.deploy)) =>
             /\ c.state \notin {"ContractsResolved", "Stored", "Accepted",
                                "DuplicateStored"}
             /\ c.n_put = 0 /\ c.n_accepted = 0
             /\ Terminal(c) =>
                   /\ RejectedAndNotStored(c)
                   /\ c.announced_source = ClientSource
                   /\ (~HasDefect(c.deploy) /\ ~PaysByTransfer(c.deploy)) =>
                         RejectedWith(c, "MissingModuleBytes")
    /\ \A s \in Slots :
          (sub[s].state = "Rejected" /\ sub[s].reason.failure = "MissingModuleBytes")
          => EmptySession(sub[s].deploy)
    /\ (ScenarioIs({"DeployWithEmptySessionModuleBytes"})
          /\ Submitted(sub[AcceptSlot])) =>
          /\ sub[AcceptSlot].source = ClientSource
          /\ sub[AcceptSlot].deploy =
                [random_valid_native_transfer(1) EXCEPT !.session = ModuleBytes(0)]
          /\ Terminal(sub[AcceptSlot]) =>
                /\ RejectedAndNotStored(sub[AcceptSlot])
                /\ RejectedWith(sub[AcceptSlot], "MissingModuleBytes")
          /\ pc = "done" =>
                /\ test_result = InvalidDeployParameters("MissingModuleBytes")
                /\ storage_assertion = "passed"

\* The test of the empty session has ended with MissingModuleBytes, and its
\* deploy is not in storage.
C20_Witness ==
    /\ ScenarioIs({"DeployWithEmptySessionModuleBytes"}) /\ pc = "done"
    /\ sub[AcceptSlot].source = ClientSource
    /\ EmptySession(sub[AcceptSlot].deploy)
    /\ RejectedAndNotStored(sub[AcceptSlot])
    /\ RejectedWith(sub[AcceptSlot], "MissingModuleBytes")
    /\ storage = {}

(***************************************************************************)
(* C21                                                                     *)
(***************************************************************************)

\* The storage put of the slot has been answered with is_new = true.
PutReportedNew(c) ==
    /\ c.n_put = 1
    /\ c.n_duplicate = 0
    /\ c.state \in {"Stored", "Accepted"}
    /\ c.state = "Stored" => c.event = PutToStorageResult(TRUE)

\* C21: an AcceptedNewDeploy announcement is put out only when the storage
\* put has reported is_new = true; it is the announcement of the deploy the
\* Accept event brought, which storage then holds, and it carries the Source
\* of that Accept event.  In the tests the valid deploy of a peer is
\* announced with Source::Peer and that of a client with Source::Client.
C21_AcceptedAnnouncedOnlyWhenNew ==
    /\ \A s \in Slots :
          LET c == sub[s] IN
          /\ c.n_accepted \in {0, 1}
          /\ (c.n_accepted = 1 \/ c.announcement = "AcceptedNewDeploy") =>
                /\ c.state = "Accepted"
                /\ c.n_accepted = 1
                /\ PutReportedNew(c)
                /\ c.deploy \in storage
                /\ c.announced_source = c.source
                /\ c.n_invalid = 0
          /\ (c.n_put = 1 /\ c.n_duplicate = 1) => c.n_accepted = 0
    /\ ScenarioIs({"FromPeerValidDeploy", "FromClientValidDeploy"}) =>
          LET c == sub[AcceptSlot] IN
          /\ condition_result => c.n_accepted = 1
          /\ c.n_accepted = 1 =>
                c.announced_source.kind =
                   (IF test_scenario.name = "FromPeerValidDeploy"
                    THEN "Peer" ELSE "Client")

\* The test reactor has announced a peer's new deploy with that peer as the
\* source, after the put that reported it new.
C21_Witness ==
    /\ TestRun /\ ScenarioIs({"FromPeerValidDeploy"})
    /\ condition_result
    /\ sub[AcceptSlot].n_accepted = 1
    /\ sub[AcceptSlot].n_duplicate = 0
    /\ sub[AcceptSlot].announced_source.kind = "Peer"
    /\ sub[AcceptSlot].deploy \in storage

(***************************************************************************)
(* C22                                                                     *)
(***************************************************************************)

\* The operation `op` has been applied to the era.
EraApplied(op) == host = "EraId" /\ era.op = op

\* C22: for every era e and every u64 x, checked_sub(e, x) is Some(EraId(e - x))
\* when x <= e and None when x > e; the era it returns is never a value
\* wrapped around zero: added to x it gives e back without overflow.
C22_CheckedSubNeverWraps ==
    EraApplied("checked_sub") =>
       /\ era.x <= era.self => era.out = Some(era.self - era.x)
       /\ era.x > era.self => era.out = None
       /\ era.out.tag = "Some" =>
             /\ era.out.value <= era.self
             /\ era.out.value + era.x = era.self

\* checked_sub has been asked for more than the era holds and has answered
\* None.
C22_Witness ==
    /\ EraApplied("checked_sub")
    /\ era.x > era.self
    /\ era.out = None

(***************************************************************************)
(* C23                                                                     *)
(***************************************************************************)

\* C23: saturating_sub(e, x) is EraId(e - x) when x <= e and EraId(0)
\* otherwise, so its result is the genesis era exactly when x >= e.
C23_SaturatingSubStopsAtGenesis ==
    EraApplied("saturating_sub") =>
       /\ era.x <= era.self => era.out = EraId(era.self - era.x)
       /\ era.x > era.self => era.out = EraId(0)
       /\ era.out.tag = "EraId"
       /\ is_genesis(era.out.value) <=> era.x >= era.self

\* saturating_sub has been asked for more than the era holds and has
\* answered the genesis era.
C23_Witness ==
    /\ EraApplied("saturating_sub")
    /\ era.x > era.self /\ era.self > 0
    /\ era.out = EraId(0)
    /\ is_genesis(era.out.value)

(***************************************************************************)
(* C24                                                                     *)
(***************************************************************************)

\* C24: saturating_add(e, x) is EraId(e + x) when e + x <= u64::MAX and
\* EraId(u64::MAX) otherwise; its result is never smaller than e.
C24_SaturatingAddStopsAtMax ==
    EraApplied("saturating_add") =>
       /\ era.self + era.x <= U64_MAX => era.out = EraId(era.self + era.x)
       /\ era.self + era.x > U64_MAX => era.out = EraId(U64_MAX)
       /\ era.out.tag = "EraId"
       /\ era.out.value >= era.self

\* saturating_add has been asked to go beyond u64::MAX from an era below it
\* and has answered u64::MAX.
C24_Witness ==
    /\ EraApplied("saturating_add")
    /\ era.self < U64_MAX
    /\ era.self + era.x > U64_MAX
    /\ era.out = EraId(U64_MAX)

(***************************************************************************)
(* C25                                                                     *)
(***************************************************************************)

\* What the operation applied to the era yields in the integers.
ExactOutcome ==
    CASE era.op = "successor" -> era.self + 1
      [] era.op = "add" -> era.self + era.x
      [] era.op = "sub" -> era.self - era.x
      [] OTHER -> era.out.value

\* C25: successor(e), e + x and e - x never yield an era computed modulo
\* 2^64: an era they return is the successor, the sum or the difference in
\* the integers.
C25_NoImplicitWraparound ==
    (EraApplied("successor") \/ EraApplied("add") \/ EraApplied("sub")) =>
       (era.out.tag = "EraId" => era.out.value = ExactOutcome)

(***************************************************************************)
(* C26                                                                     *)
(***************************************************************************)

\* C26: parsing the bytes an era serializes to gives that era back with an
\* empty remainder, and serialized_length is the length of those bytes; a
\* byte behind them is left as the remainder, and a stream that ends before
\* them is an error.
C26_SerializationRoundTrips ==
    /\ EraApplied("to_bytes") =>
          /\ era.out.tag = "Bytes"
          /\ from_bytes(era.out.bytes) = EraResult("Parsed", era.self, <<>>)
          /\ Len(era.out.bytes) = serialized_length(era.self)
    /\ EraApplied("serialized_length") =>
          era.out = EraResult("Length", Len(to_bytes(era.self).bytes), <<>>)
    /\ EraApplied("from_bytes") =>
          LET b == to_bytes(era.self).bytes IN
          /\ era.bytes = b => era.out = EraResult("Parsed", era.self, <<>>)
          /\ Len(era.bytes) > Len(b) =>
                era.out = EraResult("Parsed", era.self,
                                    SubSeq(era.bytes, Len(b) + 1, Len(era.bytes)))
          /\ Len(era.bytes) < Len(b) => era.out.tag = "EarlyEndOfStream"

\* An era whose bytes differ from one another has been parsed back from
\* them, with nothing left over.
C26_Witness ==
    /\ EraApplied("from_bytes")
    /\ era.bytes = to_bytes(era.self).bytes
    /\ era.bytes[1] # era.bytes[U64_SERIALIZED_LENGTH]
    /\ era.out = EraResult("Parsed", era.self, <<>>)

(***************************************************************************)
(* C27                                                                     *)
(***************************************************************************)

\* The structural stage has nothing against the deploy of the slot.
StructuralStagePassed(c) ==
    /\ c.deploy.defect = "none"
    /\ c.deploy.payment.kind # "Transfer"
    /\ c.source.kind = "Client" =>
          ~(c.deploy.session.kind = "ModuleBytes" /\ c.deploy.session.len = 0)

\* The account stage and, for a client, the authorization stage have passed:
\* the account query has been answered, and for a client it found an account
\* that authorizes the deploy.
AccountStagesPassed(c) ==
    /\ c.n_account_query = 1
    /\ AccountAnswered(c)
    /\ c.source.kind = "Client" => AccountResolved(c) /\ Authorized(c)

\* The balance stage has passed: a client's balance was queried and suffices.
BalanceStagePassed(c) ==
    c.source.kind = "Client" => c.n_balance_query = 1 /\ BalanceSufficient(c)

\* The item is a reference that has to be looked up.
IsReference(item) == item.kind \notin {"ModuleBytes", "Transfer"}
References(c) == {w \in {"payment", "session"} : IsReference(ItemOf(c, w))}

\* The requests of the stages in the order of the pipeline.
RequestsInStageOrder(c) ==
    /\ c.n_account_query \in {0, 1} /\ c.n_balance_query \in {0, 1}
    /\ c.n_contract_query \in 0..2 /\ c.n_put \in {0, 1}
    /\ c.n_account_query = 1 => StructuralStagePassed(c)
    /\ c.n_balance_query = 1 =>
          /\ c.source.kind = "Client"
          /\ StructuralStagePassed(c) /\ AccountStagesPassed(c)
    /\ c.n_contract_query >= 1 =>
          /\ StructuralStagePassed(c) /\ AccountStagesPassed(c)
          /\ BalanceStagePassed(c)
          /\ c.n_contract_query <= Cardinality(References(c))
    /\ (c.n_contract_query = 2 \/ c.session_answer # NoAnswer) =>
          ItemResolves(c.deploy.payment, c.payment_answer)
    /\ c.n_put = 1 =>
          /\ StructuralStagePassed(c) /\ AccountStagesPassed(c)
          /\ BalanceStagePassed(c)
          /\ c.n_contract_query = Cardinality(References(c))
          /\ ItemsResolve(c)

\* The requests a slot has issued and the answers it has been given.
RequestsOf(c) ==
    <<c.n_account_query, c.n_balance_query, c.n_contract_query, c.n_put,
      c.account_answer, c.balance_answer, c.payment_answer, c.session_answer>>

\* A rejected slot has no request pending and has put nothing to storage.
FailureEndsTheRun(c) ==
    c.state = "Rejected" =>
       /\ c.event = NoEvent
       /\ c.n_put = 0
       /\ ~(StructuralStagePassed(c) /\ AccountStagesPassed(c)
               /\ BalanceStagePassed(c) /\ ItemsResolve(c)
               /\ c.n_contract_query = Cardinality(References(c)))

\* What the scenarios of the test reactor that fail at one stage leave
\* unrequested.
FailingScenarioStops(c) ==
    /\ ScenarioIs({"FromClientInvalidDeploy", "FromPeerInvalidDeploy",
                   "DeployWithNativeTransferInPayment",
                   "DeployWithEmptySessionModuleBytes"}) =>
          NoQueryIssued(c) /\ c.n_put = 0
    /\ ScenarioIs({"FromClientMissingAccount", "AccountWithInvalidAssociatedKeys",
                   "AccountWithInsufficientWeight"}) =>
          c.n_balance_query = 0 /\ c.n_contract_query = 0 /\ c.n_put = 0
    /\ ScenarioIs({"FromClientInsufficientBalance", "AccountWithUnknownBalance"}) =>
          c.n_contract_query = 0 /\ c.n_put = 0
    /\ (ScenarioIs(ContractScenarioNames) /\ test_scenario.c # "Valid") =>
          c.n_put = 0

\* C27: within one submission a stage's request (account query, balance
\* query, contract lookup, storage put) is issued only after every earlier
\* stage has passed, each at most once per item, and the first failing stage
\* ends the run: a rejected submission has no request pending and issues no
\* request and receives no answer from then on.
C27_StagesInOrderAndShortCircuit ==
    /\ [](\A s \in Slots :
             Submitted(sub[s]) =>
                /\ RequestsInStageOrder(sub[s])
                /\ FailureEndsTheRun(sub[s])
                /\ s = AcceptSlot => FailingScenarioStops(sub[s]))
    /\ [][\A s \in Slots :
             sub[s].state = "Rejected" =>
                /\ sub'[s].state = "Rejected"
                /\ RequestsOf(sub'[s]) = RequestsOf(sub[s])]_vars

\* A client's deploy has passed the account, authorization and balance
\* stages, has failed at the lookup of its session contract after the lookup
\* of its payment contract passed, and nothing was put to storage.
C27_Witness ==
    \E s \in Slots :
       LET c == sub[s] IN
       /\ c.state = "Rejected"
       /\ c.source.kind = "Client"
       /\ c.n_account_query = 1 /\ c.n_balance_query = 1
       /\ c.n_contract_query = 2 /\ c.n_put = 0
       /\ ItemResolves(c.deploy.payment, c.payment_answer)
       /\ ~ItemResolves(c.deploy.session, c.session_answer)

(***************************************************************************)
(* C28                                                                     *)
(***************************************************************************)

\* The non-terminal states of the state machine.
PipelineStates ==
    {"Received", "StructurallyValid", "AccountResolved", "AccountSkippedForPeer",
     "AuthorizationChecked", "BalanceChecked", "ContractsResolved", "Stored"}
\* The states a submission is in before its storage put is requested.
StatesBeforePut == PipelineStates \ {"ContractsResolved", "Stored"}

\* Every submission a node may be handed, under one content hash and with a
\* responder: neither changes the states a submission moves through.
Submissions ==
    {EventMetadata(d, src, TRUE, "Received", AcceptEvent) :
        d \in NodeDeploys(1), src \in Sources}

\* What the record of a submission may be after the next event of the
\* submission is dispatched, whatever the services answer.
SlotSuccessors(c) ==
    CASE c.event.type = "Accept" ->
            {accept(c, rule) : rule \in SessionRuleChoices(c.source)}
      [] c.event.type = "Query" ->
            {[c EXCEPT !.event = IF c.event.item = "account"
                                 THEN GetAccountResult(answer)
                                 ELSE GetContractResult(c.event.item, answer)] :
                answer \in NodeQueryAnswers(c.deploy, c.event)}
      [] c.event.type = "GetBalance" ->
            {[c EXCEPT !.event = GetBalanceResult(answer)] :
                answer \in NodeBalanceAnswers}
      [] c.event.type = "GetAccountResult" ->
            {handle_get_account_result(c, c.event.answer)}
      [] c.event.type = "GetBalanceResult" ->
            {handle_get_balance_result(c, c.event.answer)}
      [] c.event.type = "GetContractResult" ->
            {handle_get_contract_result(c, c.event.item, c.event.answer)}
      [] c.event.type = "PutDeploy" ->
            {[c EXCEPT !.state = "Stored", !.event = PutToStorageResult(is_new),
                       !.n_duplicate = IF is_new THEN @ ELSE @ + 1] :
                is_new \in BOOLEAN}
      [] c.event.type = "PutToStorageResult" ->
            {handle_put_to_storage_result(c, c.event.is_new)}
      [] OTHER -> {}

RECURSIVE Explore(_, _)
\* The records in `seen` and every record that follows one of `frontier`.
Explore(seen, frontier) ==
    IF frontier = {} THEN seen
    ELSE LET next == UNION {SlotSuccessors(c) : c \in frontier} \ seen IN
         Explore(seen \cup next, next)

\* Every record a submission may have.
Contexts == Explore(Submissions, Submissions)

\* The state machine: the pairs of states a submission moves between.
StateEdges ==
    UNION {{<<c.state, d.state>> : d \in SlotSuccessors(c)} : c \in Contexts}
       \ {<<x, x>> : x \in PipelineStates \cup TerminalStates}

RECURSIVE StatesFrom(_, _)
StatesFrom(seen, frontier) ==
    IF frontier = {} THEN seen
    ELSE LET next == {e[2] : e \in {f \in StateEdges : f[1] \in frontier}} \ seen IN
         StatesFrom(seen \cup next, next)

\* The states the state machine can reach from the state x in one move or
\* more.
ReachableFrom(x) ==
    LET first == {e[2] : e \in {f \in StateEdges : f[1] = x}} IN
    StatesFrom(first, first)

\* A submission in a terminal state stays in it.
TerminalStatesAreNeverLeft ==
    /\ [][\A s \in Slots :
             Terminal(sub[s]) => sub'[s].state = sub[s].state]_vars
    /\ [](\A x \in TerminalStates : ReachableFrom(x) = {})

\* Every move of a submission in a run is a move of the state machine.
RunsFollowTheStateMachine ==
    [][\A s \in Slots :
          (sub[s].state \in PipelineStates /\ sub'[s].state # sub[s].state) =>
             <<sub[s].state, sub'[s].state>> \in StateEdges]_vars

\* C28 as stated: Accepted, DuplicateStored and Rejected are never left, and
\* Rejected is reachable from every non-terminal state.
C28_RejectedFromEveryNonTerminalState ==
    /\ TerminalStatesAreNeverLeft
    /\ RunsFollowTheStateMachine
    /\ [](\A x \in PipelineStates : "Rejected" \in ReachableFrom(x))

\* C28, amended: Accepted, DuplicateStored and Rejected are never left, and
\* Rejected follows directly on every state a submission is in before its
\* storage put is requested (Received, StructurallyValid, AccountResolved,
\* AccountSkippedForPeer, AuthorizationChecked, BalanceChecked); from
\* ContractsResolved only Stored follows and from Stored only Accepted or
\* DuplicateStored, so Rejected is not reachable from these two.
C28_RejectedFromEveryStateBeforePut ==
    /\ TerminalStatesAreNeverLeft
    /\ RunsFollowTheStateMachine
    /\ [](/\ \A x \in StatesBeforePut : <<x, "Rejected">> \in StateEdges
          /\ ReachableFrom("ContractsResolved") =
                {"Stored", "Accepted", "DuplicateStored"}
          /\ ReachableFrom("Stored") = {"Accepted", "DuplicateStored"}
          /\ \A x \in PipelineStates :
                ReachableFrom(x) \cap {"Accepted", "DuplicateStored"} # {})

\* A client's submission has been rejected by the contract resolver, from
\* the state BalanceChecked.
C28_Witness ==
    \E s \in Slots :
       LET c == sub[s] IN
       /\ c.state = "Rejected"
       /\ c.source.kind = "Client"
       /\ c.n_balance_query = 1 /\ BalanceSufficient(c)
       /\ c.n_contract_query >= 1
       /\ ~ItemsResolve(c)

(***************************************************************************)
(* C29                                                                     *)
(***************************************************************************)

\* The submission waits on a request that is never answered.
Stalled(c) == c.event = NeverAnswered

\* C29: when one of the deploys in flight waits on a request that never gets
\* a response, only its run stalls: it stays as it is, and every other
\* submission, in flight already or handed in later, reaches a terminal
\* state, however the events interleave.  A submission whose requests are
\* all answered always reaches a terminal state.
C29_OnlyTheStalledDeployStalls ==
    /\ \A s \in Slots :
          (Submitted(sub[s]) /\ ~Stalled(sub[s])) ~>
             (Terminal(sub[s]) \/ Stalled(sub[s]))
    /\ \A s \in Slots : \A t \in Slots \ {s} :
          (Stalled(sub[t]) /\ Submitted(sub[s])) ~> Terminal(sub[s])
    /\ [][\A t \in Slots : Stalled(sub[t]) => sub'[t] = sub[t]]_vars

\* One submission waits on its account query for ever, and another, handed
\* in with a different deploy, has been accepted and announced.
C29_Witness ==
    \E s \in Slots : \E t \in Slots \ {s} :
       /\ Stalled(sub[t])
       /\ sub[t].state = "StructurallyValid"
       /\ sub[s].state = "Accepted"
       /\ sub[s].announcement = "None"
       /\ sub[s].deploy.id # sub[t].deploy.id
       /\ sub[s].result = Ok

(***************************************************************************)
(* C30                                                                     *)
(***************************************************************************)

\* The submissions of the deploy with the content hash h.
SubmissionsOf(h) == {s \in Slots : Submitted(sub[s]) /\ sub[s].deploy.id = h}
\* Those whose storage put has been answered, and those it was answered
\* is_new = true.
PutAnswered(h) ==
    {s \in SubmissionsOf(h) :
        sub[s].state \in {"Stored", "Accepted", "DuplicateStored"}}
PutAnsweredNew(h) == {s \in PutAnswered(h) : sub[s].n_duplicate = 0}
\* The AcceptedNewDeploy announcements of the deploy.
AcceptedAnnouncements(h) == {s \in SubmissionsOf(h) : sub[s].n_accepted > 0}

\* C30: when the same valid deploy is submitted several times concurrently,
\* storage holds at most one copy for its hash, exactly one of the storage
\* puts that have been answered reported is_new = true, at most one
\* AcceptedNewDeploy announcement is put out for the hash, and every such
\* submission that has come to its end has come to it with Ok, announced
\* once if its put was the new one.
C30_ConcurrentDuplicatesStoredOnce ==
    \A h \in ConcurrentIds :
       /\ Cardinality({d \in storage : d.id = h}) <= 1
       /\ PutAnswered(h) # {} =>
             /\ Cardinality(PutAnsweredNew(h)) = 1
             /\ Cardinality({d \in storage : d.id = h}) = 1
       /\ Cardinality(AcceptedAnnouncements(h)) <= 1
       /\ AcceptedAnnouncements(h) \subseteq PutAnsweredNew(h)
       /\ \A s \in SubmissionsOf(h) :
             LET c == sub[s] IN
             /\ c.n_accepted <= 1
             /\ (Terminal(c) /\ NoStageFailed(c)) =>
                   /\ c.state \in {"Accepted", "DuplicateStored"}
                   /\ c.result = Ok /\ c.n_resolved = 1
                   /\ c.n_invalid = 0
                   /\ c.state = "Accepted" <=> s \in PutAnsweredNew(h)

\* The same valid deploy was handed in twice, the second time before the
\* first was stored; one submission has been accepted and the other has
\* ended as a duplicate, both with Ok, and storage holds one copy.
C30_Witness ==
    \E s \in Slots : \E t \in Slots \ {s} :
       /\ sub[s].deploy = sub[t].deploy
       /\ ~sub[s].stored_before /\ ~sub[t].stored_before
       /\ sub[s].state = "Accepted" /\ sub[t].state = "DuplicateStored"
       /\ sub[s].result = Ok /\ sub[t].result = Ok
       /\ sub[s].n_accepted = 1 /\ sub[t].n_accepted = 0
       /\ Cardinality({d \in storage : d.id = sub[s].deploy.id}) = 1

(***************************************************************************)
(* C31                                                                     *)
(***************************************************************************)

\* Every request the pipeline has issued is answered in the end: no
\* submission is ever left waiting on a service that does not respond.
EveryRequestAnswered == [](\A t \in Slots : ~Stalled(sub[t]))

\* C31: if every asynchronous request issued by the pipeline (account query,
\* balance query, contract and package lookups, storage put) is eventually
\* answered and the events are scheduled fairly, every submitted deploy
\* eventually reaches one of the terminal states Accepted, DuplicateStored
\* or Rejected.
C31_EverySubmissionTerminates ==
    EveryRequestAnswered =>
       \A s \in Slots : Submitted(sub[s]) ~> Terminal(sub[s])

\* A client's deploy that pays through a stored contract has had its account
\* query, its balance query, its contract lookup and its storage put
\* answered, and has been accepted, while no request of the node is left
\* without its response.
C31_Witness ==
    /\ \A t \in Slots : ~Stalled(sub[t])
    /\ \E s \in Slots :
          LET c == sub[s] IN
          /\ c.state = "Accepted"
          /\ c.source.kind = "Client"
          /\ c.n_account_query = 1 /\ c.n_balance_query = 1
          /\ c.n_contract_query = 1 /\ c.n_put = 1
          /\ c.result = Ok

(***************************************************************************)
(* C32                                                                     *)
(***************************************************************************)

\* The answers that fail a stage.
AccountAnswerFailed(c) ==
    c.account_answer # NoAnswer /\ ~AccountFound(c.account_answer)
BalanceAnswerFailed(c) ==
    c.balance_answer # NoAnswer /\ BalanceValidator(c.balance_answer) # Ok
LookupAnswerFailed(c, w) ==
    ItemAnswered(c, w) /\ ~ItemResolves(ItemOf(c, w), AnswerOf(c, w))

\* An answer has failed a stage of the submission; an account that is not
\* found fails the stage for a client only.
SomeAnswerFailed(c) ==
    \/ c.source.kind = "Client" /\ AccountAnswerFailed(c)
    \/ BalanceAnswerFailed(c)
    \/ \E w \in {"payment", "session"} : LookupAnswerFailed(c, w)

\* At most one request per stage, and one lookup per referenced item; a
\* request is pending only for something that has no answer yet.
AtMostOneRequestPerStage(c) ==
    /\ c.n_account_query <= 1
    /\ c.n_balance_query <= 1
    /\ c.n_put <= 1
    /\ c.n_contract_query <= Cardinality(References(c))
    /\ c.event.type = "Query" =>
          CASE c.event.item = "account" ->
                  c.n_account_query = 1 /\ c.account_answer = NoAnswer
            [] c.event.item = "payment" ->
                  c.n_contract_query = 1 /\ c.payment_answer = NoAnswer
            [] OTHER ->
                  /\ c.session_answer = NoAnswer
                  /\ c.n_contract_query = Cardinality(References(c))
    /\ c.event.type = "GetBalance" =>
          c.n_balance_query = 1 /\ c.balance_answer = NoAnswer
    /\ c.event.type = "PutDeploy" => c.n_put = 1

\* From the record c of a submission to its next record d no request is
\* issued again: not of a kind that has been answered, and of no kind at
\* all once an answer has failed a stage.
NoSecondRequest(c, d) ==
    /\ c.account_answer # NoAnswer => d.n_account_query = c.n_account_query
    /\ c.balance_answer # NoAnswer => d.n_balance_query = c.n_balance_query
    /\ c.n_put = 1 => d.n_put = 1
    /\ \A w \in {"payment", "session"} :
          ItemAnswered(c, w) => ~(d.event.type = "Query" /\ d.event.item = w)
    /\ SomeAnswerFailed(c) =>
          /\ d.n_account_query = c.n_account_query
          /\ d.n_balance_query = c.n_balance_query
          /\ d.n_contract_query = c.n_contract_query
          /\ d.n_put = c.n_put
          /\ d.event.type \notin {"Query", "GetBalance", "PutDeploy"}

\* C32: no stage is retried inside one submission: the pipeline issues at
\* most one account-resolution request, at most one purse-balance request,
\* at most one lookup per referenced item and at most one storage put, and
\* after a failure answer it issues no second request of the same kind (nor
\* of any other).
C32_NoStageRetried ==
    /\ [](\A s \in Slots :
             Submitted(sub[s]) => AtMostOneRequestPerStage(sub[s]))
    /\ [][\A s \in Slots :
             Submitted(sub[s]) => NoSecondRequest(sub[s], sub'[s])]_vars

\* A client's balance query was answered with a balance that fails the
\* stage; the rejection has been announced and the announcement dispatched,
\* and the submission stands at one account query, one balance query and no
\* further request.
C32_Witness ==
    \E s \in Slots :
       LET c == sub[s] IN
       /\ c.state = "Rejected"
       /\ c.source.kind = "Client"
       /\ BalanceAnswerFailed(c)
       /\ c.n_invalid = 1 /\ c.announcement = "None"
       /\ c.n_account_query = 1 /\ c.n_balance_query = 1
       /\ c.n_contract_query = 0 /\ c.n_put = 0

(***************************************************************************)
(* C33                                                                     *)
(***************************************************************************)

\* The submission came in by an Accept event from a peer.
AcceptedFromPeer(c) ==
    c.source.kind = "Peer" /\ c.state \notin {"Idle", "Injected", "Panicked"}

\* The stages of a client's balance check.
BalanceCheckStates == {"AuthorizationChecked", "BalanceChecked"}

\* The peer's submission has nothing of the balance check about it.
NoBalanceCheck(c) ==
    /\ c.n_balance_query = 0
    /\ c.balance_answer = NoAnswer
    /\ c.event.type \notin {"GetBalance", "GetBalanceResult"}
    /\ c.state \notin BalanceCheckStates

\* C33: over every sequence of Accept events and service responses, a
\* submission whose source is a peer never issues a purse-balance query and
\* never enters the balance-check stage, also when its account resolves as
\* found; the contract-violation abort is reached only from a balance result
\* that was injected directly, never from an Accept event.
C33_PeerNeverBalanceChecked ==
    /\ [](\A s \in Slots : AcceptedFromPeer(sub[s]) => NoBalanceCheck(sub[s]))
    /\ [](/\ sub[AcceptSlot].state # "Panicked"
          /\ host = "Node" => ~panicked
          /\ \A s \in Slots :
                sub[s].state = "Panicked" =>
                   s = InjectSlot /\ test_scenario = BalanceCheckScenario)
    /\ [][\A s \in Slots :
             /\ sub'[s].state = "Panicked" =>
                   sub[s].state \in {"Injected", "Panicked"}
             /\ (sub[s].state = "Injected" /\ sub'[s] # sub[s]) =>
                   sub'[s].state = "Panicked"
             /\ (sub[s].source.kind = "Peer" /\ sub[s].state = "StructurallyValid"
                   /\ sub'[s].state # sub[s].state) =>
                   /\ sub'[s].state \in {"AccountResolved", "AccountSkippedForPeer",
                                         "ContractsResolved", "Rejected"}
                   /\ sub'[s].state = "AccountSkippedForPeer" =>
                         ~AccountFound(sub'[s].account_answer)
                   /\ sub'[s].state = "AccountResolved" =>
                         AccountFound(sub'[s].account_answer)]_vars

\* The test reactor has run a valid deploy from a peer: its account resolved
\* as found, no balance query was issued, the deploy has been accepted and
\* the test was given Ok.
C33_Witness ==
    /\ ScenarioIs({"FromPeerValidDeploy"})
    /\ pc = "done" /\ test_result = Ok
    /\ LET c == sub[AcceptSlot] IN
       /\ c.source.kind = "Peer"
       /\ AccountFound(c.account_answer)
       /\ c.state = "Accepted"
       /\ c.n_account_query = 1 /\ c.n_balance_query = 0 /\ c.n_put = 1

(***************************************************************************)
(* C34                                                                     *)
(***************************************************************************)

\* The items of the deploy a lookup has been issued for: the lookup is
\* pending, its answer is on its way to the acceptor, or it has been
\* answered.
LookedUp(c) ==
    {w \in {"payment", "session"} :
        \/ ItemAnswered(c, w)
        \/ c.event.type \in {"Query", "GetContractResult"} /\ c.event.item = w}

\* The submission is past the Contract/Package Resolver.
PastResolver(c) ==
    c.state \in {"ContractsResolved", "Stored", "Accepted", "DuplicateStored"}

\* The record c of a submission is about to enter the Contract/Package
\* Resolver: a client's balance suffices, or a peer's account query is
\* answered.
EntersResolver(c) ==
    \/ /\ c.source.kind = "Client" /\ c.event.type = "GetBalanceResult"
       /\ BalanceValidator(c.event.answer) = Ok
    \/ c.source.kind = "Peer" /\ c.event.type = "GetAccountResult"

\* C34: a payment or session item that is inline module bytes or a native
\* transfer causes no contract or package lookup: the pipeline issues a
\* lookup only for an item that references a stored contract or package,
\* one per such item, and a deploy with no such item passes the
\* Contract/Package Resolver stage with zero queries, going straight on to
\* the storage put.
C34_InlineItemsNeedNoLookup ==
    /\ [](\A s \in Slots :
             LET c == sub[s] IN
             Submitted(c) =>
                /\ LookedUp(c) \subseteq References(c)
                /\ c.n_contract_query = Cardinality(LookedUp(c))
                /\ \A w \in {"payment", "session"} :
                      ~IsReference(ItemOf(c, w)) => AnswerOf(c, w) = NoAnswer
                /\ References(c) = {} => c.n_contract_query = 0
                /\ PastResolver(c) => LookedUp(c) = References(c)
                /\ (s = AcceptSlot /\ ScenarioIs({"FromClientValidDeploy",
                        "FromPeerValidDeploy", "FromClientRepeatedValidDeploy",
                        "FromPeerRepeatedValidDeploy"})) =>
                      References(c) = {})
    /\ [][\A s \in Slots :
             (/\ Submitted(sub[s]) /\ References(sub[s]) = {}
              /\ EntersResolver(sub[s]) /\ sub'[s] # sub[s]) =>
                /\ sub'[s].state = "ContractsResolved"
                /\ sub'[s].event = PutDeployRequest
                /\ sub'[s].n_contract_query = 0]_vars

\* The test reactor has run the valid deploy from a client, whose payment
\* is inline module bytes and whose session is a native transfer: it was
\* accepted and the test given Ok without any contract or package lookup.
C34_Witness ==
    /\ ScenarioIs({"FromClientValidDeploy"})
    /\ pc = "done" /\ test_result = Ok
    /\ LET c == sub[AcceptSlot] IN
       /\ c.deploy.payment.kind = "ModuleBytes"
       /\ c.deploy.session.kind = "Transfer"
       /\ c.state = "Accepted"
       /\ c.n_balance_query = 1
       /\ c.n_contract_query = 0 /\ c.n_put = 1
       /\ c.payment_answer = NoAnswer /\ c.session_answer = NoAnswer

(***************************************************************************)
(* C35                                                                     *)
(***************************************************************************)

\* The terminal outcome of a submission: its state, the failure kind it was
\* rejected with, what its caller was given and what was announced.
Outcome(c) ==
    <<c.state, c.reason, c.result, c.n_accepted, c.n_invalid, c.n_duplicate>>

RECURSIVE RunAlone(_, _)
\* The record the submission c ends with when it runs alone, on a storage
\* that holds nothing, and its requests are given the answers recorded in
\* `given`.
RunAlone(c, given) ==
    CASE c.event.type = "Query" ->
            RunAlone((IF c.event.item = "account"
                      THEN handle_get_account_result(c, given.account_answer)
                      ELSE handle_get_contract_result(c, c.event.item,
                                                      AnswerOf(given, c.event.item))),
                     given)
      [] c.event.type = "GetBalance" ->
            RunAlone(handle_get_balance_result(c, given.balance_answer), given)
      [] c.event.type = "PutDeploy" ->
            LET is_new == put_deploy_is_new({}, c.deploy) IN
            RunAlone(handle_put_to_storage_result(
                        [c EXCEPT !.state = "Stored",
                                  !.n_duplicate = IF is_new THEN @ ELSE @ + 1],
                        is_new), given)
      [] OTHER -> c

\* The outcomes of the deploy and source of c run alone with the answers c
\* was given.
AloneOutcomes(c) ==
    {Outcome(RunAlone(accept(EventMetadata(c.deploy, c.source, c.responder,
                                           "Received", AcceptEvent), rule), c)) :
        rule \in SessionRuleChoices(c.source)}

\* Two submissions of deploys that differ in their content hash only, from
\* the same source and with the same answers to their requests.
SameInputs(c, d) ==
    /\ [c.deploy EXCEPT !.id = 0] = [d.deploy EXCEPT !.id = 0]
    /\ c.source = d.source /\ c.responder = d.responder
    /\ c.account_answer = d.account_answer
    /\ c.balance_answer = d.balance_answer
    /\ c.payment_answer = d.payment_answer
    /\ c.session_answer = d.session_answer

\* C35: the outcome of a submission is determined by its own deploy, its
\* source and the answers to its own requests: with two deploys of
\* different content hashes in flight, the terminal outcome and failure
\* kind of each is, in every interleaving of their events, the one it has
\* when it runs alone with the same answers; two submissions with the same
\* inputs end alike; and the dispatch of one submission's event changes
\* nothing of the other submission.
C35_OutcomeIndependentOfInterleaving ==
    /\ [](\A s \in Slots : \A t \in Slots \ {s} :
             (Terminal(sub[s]) /\ sub[t].deploy.id # sub[s].deploy.id) =>
                /\ AloneOutcomes(sub[s]) = {Outcome(sub[s])}
                /\ (Terminal(sub[t]) /\ SameInputs(sub[s], sub[t])) =>
                      Outcome(sub[t]) = Outcome(sub[s]))
    /\ [][\A s \in Slots : \A t \in Slots \ {s} :
             sub'[s] # sub[s] => sub'[t] = sub[t]]_vars

\* Two deploys of different content hashes were in flight together, from a
\* client and with the same answers to their account and balance queries:
\* the one that pays inline has been accepted, the one that pays through a
\* stored contract has been rejected for the contract its lookup did not
\* find, and both are stored or not as they would be alone.
C35_Witness ==
    \E s \in Slots : \E t \in Slots \ {s} :
       /\ sub[s].deploy.id # sub[t].deploy.id
       /\ sub[s].source.kind = "Client" /\ sub[t].source.kind = "Client"
       /\ sub[s].account_answer = sub[t].account_answer
       /\ sub[s].balance_answer = sub[t].balance_answer
       /\ sub[s].state = "Accepted" /\ sub[s].result = Ok
       /\ sub[t].state = "Rejected"
       /\ sub[t].reason = InvalidDeployParameters("NonexistentContractAtHash")
       /\ sub[s].deploy \in storage /\ sub[t].deploy \notin storage

============================================================================
